---- MODULE Spec2Model ----
(***************************************************************************)
(* Energy accounting of simulated radio nodes (package energy of ot-ns).   *)
(*                                                                         *)
(* The state is that of one EnergyAnalyser (core.go) together with the     *)
(* package-level DeviceModels registry.  Every method of the analyser and  *)
(* of NodeEnergy (node.go) that changes state is one action.               *)
(*                                                                         *)
(* Power draws are float64 kilowatts in the source; they are kept here as  *)
(* integer multiples of 1e-8 kW, and the quotients e/netSize of            *)
(* StoreNetworkEnergy as reduced fractions, so products and sums are the   *)
(* exact values the floating-point results approximate.                    *)
(***************************************************************************)
EXTENDS Integers, Sequences, FiniteSets, TLC

VARIABLES
    nodes,                  \* EnergyAnalyser.nodes: map[int]*NodeEnergy
    networkHistory,         \* EnergyAnalyser.networkHistory
    energyHistoryByNodes,   \* EnergyAnalyser.energyHistoryByNodes
    DeviceModels,           \* the registry; TxPowerConsumption grows by caching
    panicked,               \* a Go panic (nil dereference) has ended the run
    calls,                  \* number of calls the simulation has made so far
    registeredAt,           \* history variable: the timestamp each node was added with
    pending,                \* nodesEnergySnapshot of a StoreNetworkEnergy between its two appends
    resolved,               \* the last consumption looked up on its own: <<>> or <<[txPower, value]>>
    listed                  \* the last listing of the registry: <<>> or <<[fn, out]>>

vars == <<nodes, networkHistory, energyHistoryByNodes, DeviceModels, panicked, calls,
          registeredAt, pending, resolved, listed>>

-----------------------------------------------------------------------------
(* Bounds of the model *)

MaxNodes == 2
MaxTime == 2
MaxCalls == 4
UintBits == 5

NodeIds == 1..MaxNodes
Timestamps == 0..MaxTime

\* uint64 arithmetic wraps; the word is scaled down to UintBits bits
UintMod == 2^UintBits

\* values of radiomodel.RadioStates handled by ComputeRadioState
RadioStates == {"RadioDisabled", "RadioSleep", "RadioTx", "RadioRx", "RadioInvalid"}

\* values the simulation stores in the DbValue that txPower points to
TxPowers == {0, 5}

\* model names passed to AddNode; "nomodel" is not a key of the registry
ModelArgs == {"stm32wb55rg", "xxx", "nomodel"}

\* the nil *DeviceModel
NilModel == "nil"

EmptyMap == [x \in {} |-> 0]

\* value used when empty tx list or appropriate value not found (1.0e-4 kW)
undefinedValue == 10000

\* the registry as compiled in, draws in units of 1e-8 kW
InitDeviceModels ==
    [name \in {"stm32wb55rg", "xxx", "yyy"} |->
        CASE name = "stm32wb55rg" ->
                [RxConsumption |-> 1485, SleepConsumption |-> 1485,
                 DisabledConsumption |-> 11,
                 TxPowerConsumption |-> [l \in {0} |-> 1716]]
          [] name = "xxx" ->
                [RxConsumption |-> 9000, SleepConsumption |-> 52,
                 DisabledConsumption |-> 5000,
                 TxPowerConsumption |->
                    [l \in {-20, -10, 0, 10, 20} |->
                        CASE l = -20 -> 3000 [] l = -10 -> 5000 [] l = 0 -> 10000
                          [] l = 10 -> 30000 [] l = 20 -> 50000]]
          [] name = "yyy" ->
                [RxConsumption |-> 8481, SleepConsumption |-> 111,
                 DisabledConsumption |-> 4000,
                 TxPowerConsumption |->
                    [l \in {-20, -10, 0} |->
                        CASE l = -20 -> 100 [] l = -10 -> 200 [] l = 0 -> 300]]]

-----------------------------------------------------------------------------
(* Helpers *)

Min(S) == CHOOSE x \in S : \A y \in S : x <= y
Max(S) == CHOOSE x \in S : \A y \in S : x >= y

RECURSIVE GCD(_, _)
GCD(a, b) == IF b = 0 THEN a ELSE GCD(b, a % b)

\* an exact quotient num/den, den > 0, in lowest terms
Rat(num, den) ==
    LET g == GCD(num, den)
    IN  IF num = 0 THEN [num |-> 0, den |-> 1]
        ELSE [num |-> num \div g, den |-> den \div g]

RatAdd(x, y) == Rat(x.num * y.den + y.num * x.den, x.den * y.den)

\* all orders in which a range over a Go map with key set S can run
Orders(S) ==
    {s \in [1..Cardinality(S) -> S] : \A i, j \in 1..Cardinality(S) : i # j => s[i] # s[j]}

\* mutant: the keys come in descending order
RECURSIVE SortInts_Descending(_)
SortInts_Descending(S) ==
    IF S = {} THEN <<>> ELSE <<Max(S)>> \o SortInts_Descending(S \ {Max(S)})

\* sort.Ints
RECURSIVE SortInts(_)
SortInts(S) == IF S = {} THEN <<>> ELSE <<Min(S)>> \o SortInts(S \ {Min(S)})

-----------------------------------------------------------------------------
(* node.go *)

\* the SpentTx[level] += delta of a Go map: a missing key counts as 0 and is created
AddSpentTx(spentTx, level, delta) ==
    [l \in DOMAIN spentTx \cup {level} |->
        ((IF l \in DOMAIN spentTx THEN spentTx[l] ELSE 0)
         + (IF l = level THEN delta ELSE 0)) % UintMod]

\* the switch of ComputeRadioState: delta added to the bucket of the node's state.
\* txPower and rxOnWhenIdle are the values read through the pointers node.txPower
\* and node.nodeMode at the time of the call; the simulation owns what they point to
Booked(node, delta, txPower, rxOnWhenIdle) ==
    CASE node.State = "RadioDisabled" ->
            [node EXCEPT !.SpentDisabled = (@ + delta) % UintMod]
      [] node.State = "RadioSleep" ->
            IF rxOnWhenIdle
            THEN [node EXCEPT !.SpentDisabled = (@ + delta) % UintMod]
            ELSE [node EXCEPT !.SpentSleep = (@ + delta) % UintMod]
      [] node.State = "RadioTx" ->
            [node EXCEPT !.SpentTx = AddSpentTx(@, txPower, delta)]
      [] node.State = "RadioRx" ->
            [node EXCEPT !.SpentRx = (@ + delta) % UintMod]
      [] node.State = "RadioInvalid" -> node

\* mutant: time spent receiving is not booked
ComputeRadioState_RxNotBooked(node, timestamp, txPower, rxOnWhenIdle) ==
    [(IF node.State = "RadioRx" THEN node
      ELSE Booked(node, (timestamp - node.Timestamp) % UintMod, txPower, rxOnWhenIdle))
     EXCEPT !.Timestamp = timestamp]

\* mutant: the node mode is ignored, Sleep always adds to SpentSleep
ComputeRadioState_ModeIgnored(node, timestamp, txPower, rxOnWhenIdle) ==
    [Booked(node, (timestamp - node.Timestamp) % UintMod, txPower, FALSE)
     EXCEPT !.Timestamp = timestamp]

\* mutant: the Invalid case returns before the timestamp is stored
ComputeRadioState_InvalidKeepsTimestamp(node, timestamp, txPower, rxOnWhenIdle) ==
    IF node.State = "RadioInvalid" THEN node
    ELSE [Booked(node, (timestamp - node.Timestamp) % UintMod, txPower, rxOnWhenIdle)
          EXCEPT !.Timestamp = timestamp]

\* mutant: every call books at least one time unit
ComputeRadioState_AtLeastOneUnit(node, timestamp, txPower, rxOnWhenIdle) ==
    [Booked(node, Max({1, (timestamp - node.Timestamp) % UintMod}), txPower, rxOnWhenIdle)
     EXCEPT !.Timestamp = timestamp]

\* mutant: a timestamp before the node's Timestamp is rejected, nothing changes
ComputeRadioState_RejectsRegression(node, timestamp, txPower, rxOnWhenIdle) ==
    IF timestamp < node.Timestamp THEN node
    ELSE [Booked(node, (timestamp - node.Timestamp) % UintMod, txPower, rxOnWhenIdle)
          EXCEPT !.Timestamp = timestamp]

\* mutant: transmit-time is booked to the lowest level, whatever txPower points to
ComputeRadioState_TxAtLowestLevel(node, timestamp, txPower, rxOnWhenIdle) ==
    [Booked(node, (timestamp - node.Timestamp) % UintMod, Min(TxPowers), rxOnWhenIdle)
     EXCEPT !.Timestamp = timestamp]

ComputeRadioState(node, timestamp, txPower, rxOnWhenIdle) ==
    [Booked(node, (timestamp - node.Timestamp) % UintMod, txPower, rxOnWhenIdle)
     EXCEPT !.Timestamp = timestamp]

\* mutant: a new tracker starts in RadioSleep
newNode_StartsAsleep(timestamp, model) ==
    [Model         |-> IF model \in DOMAIN DeviceModels THEN model ELSE NilModel,
     State         |-> "RadioSleep",
     SpentDisabled |-> 0,
     SpentSleep    |-> 0,
     SpentRx       |-> 0,
     SpentTx       |-> EmptyMap,
     Timestamp     |-> timestamp]

\* mutant: a model name that is no key of the registry gets the first profile
newNode_DefaultsProfile(timestamp, model) ==
    [Model         |-> IF model \in DOMAIN DeviceModels THEN model ELSE "stm32wb55rg",
     State         |-> "RadioDisabled",
     SpentDisabled |-> 0,
     SpentSleep    |-> 0,
     SpentRx       |-> 0,
     SpentTx       |-> EmptyMap,
     Timestamp     |-> timestamp]

newNode(timestamp, model) ==
    [Model         |-> IF model \in DOMAIN DeviceModels THEN model ELSE NilModel,
     State         |-> "RadioDisabled",
     SpentDisabled |-> 0,
     SpentSleep    |-> 0,
     SpentRx       |-> 0,
     SpentTx       |-> EmptyMap,
     Timestamp     |-> timestamp]

\* a nil *NodeEnergy, what e.nodes[nodeID] yields for an id that is no key
NilNode == [nil |-> TRUE]

\* mutant: a nil receiver is answered with false
NodeSetDeviceModel_NilSafe(node, model) ==
    IF model \notin DOMAIN DeviceModels \/ node = NilNode
    THEN [ret |-> "false", node |-> node]
    ELSE [ret |-> "true", node |-> [node EXCEPT !.Model = model]]

\* NodeEnergy.SetDeviceModel: false when the model is not found; otherwise
\* node.Model = dm, which dereferences the receiver and panics when it is nil
NodeSetDeviceModel(node, model) ==
    IF model \notin DOMAIN DeviceModels
    THEN [ret |-> "false", node |-> node]
    ELSE IF node = NilNode
    THEN [ret |-> "panic", node |-> node]
    ELSE [ret |-> "true", node |-> [node EXCEPT !.Model = model]]

\* mutant: the map is made anew on every write
SetTxPowerConsumption_MakesNewMap(txMap, txPower, consumption) ==
    [l \in {txPower} |-> consumption]

\* DeviceModel.SetTxPowerConsumption, on the TxPowerConsumption map of one model
SetTxPowerConsumption(txMap, txPower, consumption) ==
    [l \in DOMAIN txMap \cup {txPower} |-> IF l = txPower THEN consumption ELSE txMap[l]]

\* mutant: the scan keeps the last level above txPower instead of the first
RECURSIVE FirstHigher_LastHigher(_, _)
FirstHigher_LastHigher(txList, txPower) ==
    IF txList = <<>> THEN <<>>
    ELSE IF txList[Len(txList)] > txPower THEN <<txList[Len(txList)]>>
    ELSE FirstHigher_LastHigher(SubSeq(txList, 1, Len(txList) - 1), txPower)

\* mutant: the scan passes over levels less than five above txPower
RECURSIVE FirstHigher_FiveAbove(_, _)
FirstHigher_FiveAbove(txList, txPower) ==
    IF txList = <<>> THEN <<>>
    ELSE IF Head(txList) > txPower + 4 THEN <<Head(txList)>>
    ELSE FirstHigher_FiveAbove(Tail(txList), txPower)

\* the scan "for _, k := range txList { if k > txPower ..." : the first hit, or <<>>
RECURSIVE FirstHigher(_, _)
FirstHigher(txList, txPower) ==
    IF txList = <<>> THEN <<>>
    ELSE IF Head(txList) > txPower THEN <<Head(txList)>>
    ELSE FirstHigher(Tail(txList), txPower)

\* mutant: the default of an empty map is returned but not written back
FindAndAddTxPowerConsumption_DefaultNotCached(txMap, txPower) ==
    LET txList == SortInts(DOMAIN txMap)
    IN  IF Len(txList) = 0
        THEN [value |-> undefinedValue, map |-> txMap]
        ELSE IF txPower > txList[Len(txList)]
        THEN LET maxVal == txMap[txList[Len(txList)]]
             IN  [value |-> maxVal, map |-> SetTxPowerConsumption(txMap, txPower, maxVal)]
        ELSE LET hit == FirstHigher(txList, txPower)
             IN  IF hit # <<>>
                 THEN [value |-> txMap[hit[1]],
                       map   |-> SetTxPowerConsumption(txMap, txPower, txMap[hit[1]])]
                 ELSE [value |-> undefinedValue, map |-> txMap]

\* mutant: the value written back into the model is not the value returned
FindAndAddTxPowerConsumption_CachesDefault(txMap, txPower) ==
    LET txList == SortInts(DOMAIN txMap)
        value == IF Len(txList) = 0 THEN undefinedValue
                 ELSE IF txPower > txList[Len(txList)] THEN txMap[txList[Len(txList)]]
                 ELSE txMap[FirstHigher(txList, txPower)[1]]
    IN  [value |-> value, map |-> SetTxPowerConsumption(txMap, txPower, undefinedValue)]

\* returns the consumption and the extended TxPowerConsumption map
FindAndAddTxPowerConsumption(txMap, txPower) ==
    LET txList == SortInts(DOMAIN txMap)
    IN  IF Len(txList) = 0
        THEN [value |-> undefinedValue,
              map   |-> SetTxPowerConsumption(txMap, txPower, undefinedValue)]
        ELSE IF txPower > txList[Len(txList)]
        THEN LET maxVal == txMap[txList[Len(txList)]]
             IN  [value |-> maxVal, map |-> SetTxPowerConsumption(txMap, txPower, maxVal)]
        ELSE LET hit == FirstHigher(txList, txPower)
             IN  IF hit # <<>>
                 THEN [value |-> txMap[hit[1]],
                       map   |-> SetTxPowerConsumption(txMap, txPower, txMap[hit[1]])]
                 ELSE [value |-> undefinedValue, map |-> txMap]

\* mutant: the draw is resolved anew although the level is a key of the map
Consumption_AlwaysResolves(txMap, txPower) ==
    FindAndAddTxPowerConsumption(txMap, txPower)

\* "consumption, ok := node.Model.TxPowerConsumption[txPower]; if !ok { ... }":
\* the draw of a level that is a key of the map, else the draw resolved for it
Consumption(txMap, txPower) ==
    IF txPower \in DOMAIN txMap
    THEN [value |-> txMap[txPower], map |-> txMap]
    ELSE FindAndAddTxPowerConsumption(txMap, txPower)

\* the range over node.radio.SpentTx, run in the order given
RECURSIVE CalculateTxEnergy(_, _, _)
CalculateTxEnergy(spentTx, txMap, order) ==
    IF order = <<>> THEN [txEnergy |-> 0, map |-> txMap]
    ELSE LET txPower == Head(order)
             found == Consumption(txMap, txPower)
             rest == CalculateTxEnergy(spentTx, found.map, Tail(order))
         IN  [txEnergy |-> found.value * spentTx[txPower] + rest.txEnergy,
              map      |-> rest.map]

CalculateRxEnergy(node, dm) == dm.RxConsumption * node.SpentRx

CalculateDisabledEnergy(node, dm) == dm.DisabledConsumption * node.SpentDisabled

\* mutant: the sleep draw is multiplied by the disabled-time
CalculateSleepEnergy_OfDisabledTime(node, dm) == dm.SleepConsumption * node.SpentDisabled

CalculateSleepEnergy(node, dm) == dm.SleepConsumption * node.SpentSleep

\* mutant: the node works on a copy of the profile, what it resolves is not kept
NodeEnergyOf_PrivateCopy(node, models, order) ==
    LET dm == models[node.Model]
        tx == CalculateTxEnergy(node.SpentTx, dm.TxPowerConsumption, order)
    IN  [Disabled |-> CalculateDisabledEnergy(node, dm),
         Sleep    |-> CalculateSleepEnergy(node, dm),
         Tx       |-> tx.txEnergy,
         Rx       |-> CalculateRxEnergy(node, dm),
         map      |-> dm.TxPowerConsumption]

\* the four totals of a node in the order StoreNetworkEnergy evaluates them
NodeEnergyOf(node, models, order) ==
    LET dm == models[node.Model]
        tx == CalculateTxEnergy(node.SpentTx, dm.TxPowerConsumption, order)
    IN  [Disabled |-> CalculateDisabledEnergy(node, dm),
         Sleep    |-> CalculateSleepEnergy(node, dm),
         Tx       |-> tx.txEnergy,
         Rx       |-> CalculateRxEnergy(node, dm),
         map      |-> tx.map]

-----------------------------------------------------------------------------
(* core.go *)

ZeroConsumption ==
    [EnergyConsDisabled |-> Rat(0, 1), EnergyConsSleep |-> Rat(0, 1),
     EnergyConsTx |-> Rat(0, 1), EnergyConsRx |-> Rat(0, 1)]

\* an order over all levels, cut down to the keys a map holds
Restrict(order, S) == SelectSeq(order, LAMBDA l : l \in S)

\* the loop "for _, node := range e.nodes" of StoreNetworkEnergy; it stops at the
\* first node without a model, whose CalculateDisabledEnergy dereferences nil
\* read[id] holds what the loop reads outside the analyser for node id: txPower and
\* rxOnWhenIdle through the node's pointers, and txOrder, the order of its range
\* over SpentTx
RECURSIVE StoreLoop(_, _, _, _, _)
StoreLoop(idOrder, read, timestamp, netSize, acc) ==
    IF idOrder = <<>> \/ acc.panicked THEN acc
    ELSE LET id == Head(idOrder)
             node == ComputeRadioState(acc.nodes[id], timestamp,
                                       read[id].txPower, read[id].rxOnWhenIdle)
             nodes1 == [acc.nodes EXCEPT ![id] = node]
         IN  IF node.Model = NilModel
             THEN [acc EXCEPT !.nodes = nodes1, !.panicked = TRUE]
             ELSE LET en == NodeEnergyOf(node, acc.models,
                                         Restrict(read[id].txOrder, DOMAIN node.SpentTx))
                      e == [NodeId |-> id, Disabled |-> en.Disabled, Sleep |-> en.Sleep,
                            Tx |-> en.Tx, Rx |-> en.Rx]
                  IN  StoreLoop(Tail(idOrder), read, timestamp, netSize,
                        [nodes  |-> nodes1,
                         models |-> [acc.models EXCEPT
                                        ![node.Model].TxPowerConsumption = en.map],
                         snap   |-> Append(acc.snap, e),
                         net    |-> [EnergyConsDisabled |->
                                        RatAdd(acc.net.EnergyConsDisabled, Rat(e.Disabled, netSize)),
                                     EnergyConsSleep |->
                                        RatAdd(acc.net.EnergyConsSleep, Rat(e.Sleep, netSize)),
                                     EnergyConsTx |->
                                        RatAdd(acc.net.EnergyConsTx, Rat(e.Tx, netSize)),
                                     EnergyConsRx |->
                                        RatAdd(acc.net.EnergyConsRx, Rat(e.Rx, netSize))],
                         panicked |-> FALSE])

\* a call is made while the run has not panicked; the model follows MaxCalls calls
Called ==
    /\ ~panicked
    /\ calls < MaxCalls
    /\ calls' = calls + 1

\* mutant: only the network history is reset
ClearEnergyData_NetworkOnly ==
    /\ networkHistory' = <<>>
    /\ UNCHANGED energyHistoryByNodes

ClearEnergyData ==
    /\ networkHistory' = <<>>
    /\ energyHistoryByNodes' = <<>>

\* mutant: a node id that is present is registered anew
AddNode_Replaces(nodeID, timestamp, model) ==
    /\ Called
    /\ nodes' = [i \in DOMAIN nodes \cup {nodeID} |->
                    IF i = nodeID THEN newNode(timestamp, model) ELSE nodes[i]]
    /\ registeredAt' = [i \in DOMAIN nodes \cup {nodeID} |->
                            IF i = nodeID THEN timestamp ELSE registeredAt[i]]
    /\ UNCHANGED <<networkHistory, energyHistoryByNodes, DeviceModels, panicked, pending, resolved, listed>>

AddNode(nodeID, timestamp, model) ==
    /\ Called
    /\ IF nodeID \in DOMAIN nodes
       THEN UNCHANGED <<nodes, registeredAt>>
       ELSE /\ nodes' = [i \in DOMAIN nodes \cup {nodeID} |->
                            IF i = nodeID THEN newNode(timestamp, model)
                            ELSE nodes[i]]
            /\ registeredAt' = [i \in DOMAIN nodes \cup {nodeID} |->
                                    IF i = nodeID THEN timestamp ELSE registeredAt[i]]
    /\ UNCHANGED <<networkHistory, energyHistoryByNodes, DeviceModels, panicked, pending, resolved, listed>>

\* mutant: the histories outlive the last node
DeleteNode_KeepsHistory(nodeID) ==
    /\ Called
    /\ nodes' = [i \in DOMAIN nodes \ {nodeID} |-> nodes[i]]
    /\ registeredAt' = [i \in DOMAIN nodes \ {nodeID} |-> registeredAt[i]]
    /\ UNCHANGED <<networkHistory, energyHistoryByNodes, DeviceModels, panicked, pending, resolved, listed>>

\* mutant: every DeleteNode clears the histories, also while nodes remain
DeleteNode_AlwaysClears(nodeID) ==
    /\ Called
    /\ nodes' = [i \in DOMAIN nodes \ {nodeID} |-> nodes[i]]
    /\ registeredAt' = [i \in DOMAIN nodes \ {nodeID} |-> registeredAt[i]]
    /\ ClearEnergyData
    /\ UNCHANGED <<DeviceModels, panicked, pending, resolved, listed>>

\* mutant: with the node go the levels cached in the profiles
DeleteNode_ForgetsCache(nodeID) ==
    /\ Called
    /\ nodes' = [i \in DOMAIN nodes \ {nodeID} |-> nodes[i]]
    /\ registeredAt' = [i \in DOMAIN nodes \ {nodeID} |-> registeredAt[i]]
    /\ IF DOMAIN nodes \ {nodeID} = {}
       THEN ClearEnergyData
       ELSE UNCHANGED <<networkHistory, energyHistoryByNodes>>
    /\ DeviceModels' = InitDeviceModels
    /\ UNCHANGED <<panicked, pending, resolved, listed>>

\* mutant: the records of the deleted node are taken out of the earlier batches
DeleteNode_PrunesBatches(nodeID) ==
    /\ Called
    /\ nodes' = [i \in DOMAIN nodes \ {nodeID} |-> nodes[i]]
    /\ registeredAt' = [i \in DOMAIN nodes \ {nodeID} |-> registeredAt[i]]
    /\ IF DOMAIN nodes \ {nodeID} = {}
       THEN ClearEnergyData
       ELSE /\ UNCHANGED networkHistory
            /\ energyHistoryByNodes' =
                  [k \in 1..Len(energyHistoryByNodes) |->
                      SelectSeq(energyHistoryByNodes[k], LAMBDA e : e.NodeId # nodeID)]
    /\ UNCHANGED <<DeviceModels, panicked, pending, resolved, listed>>

DeleteNode(nodeID) ==
    /\ Called
    /\ nodes' = [i \in DOMAIN nodes \ {nodeID} |-> nodes[i]]
    /\ registeredAt' = [i \in DOMAIN nodes \ {nodeID} |-> registeredAt[i]]
    /\ IF DOMAIN nodes \ {nodeID} = {}
       THEN ClearEnergyData
       ELSE UNCHANGED <<networkHistory, energyHistoryByNodes>>
    /\ UNCHANGED <<DeviceModels, panicked, pending, resolved, listed>>

\* what EnergyAnalyser.SetDeviceModel(nodeID, model) returns, or "panic"
SetDeviceModelReturns(nodeID, model) ==
    IF nodeID \in DOMAIN nodes THEN "false"
    ELSE NodeSetDeviceModel(NilNode, model).ret

\* mutant: no guard, NodeEnergy.SetDeviceModel is called on whatever entry the id has
SetDeviceModel_NoGuard(nodeID, model) ==
    /\ Called
    /\ LET out == NodeSetDeviceModel(IF nodeID \in DOMAIN nodes THEN nodes[nodeID]
                                     ELSE NilNode, model)
       IN  /\ panicked' = (out.ret = "panic")
           /\ IF nodeID \in DOMAIN nodes
              THEN nodes' = [nodes EXCEPT ![nodeID] = out.node]
              ELSE UNCHANGED nodes
    /\ UNCHANGED <<networkHistory, energyHistoryByNodes, DeviceModels, pending,
                   resolved, listed, registeredAt>>

\* mutant: the guard is the other way round, the model of a registered node is set
SetDeviceModel_GuardInverted(nodeID, model) ==
    /\ Called
    /\ IF nodeID \notin DOMAIN nodes
       THEN UNCHANGED nodes
       ELSE nodes' = [nodes EXCEPT ![nodeID] = NodeSetDeviceModel(@, model).node]
    /\ UNCHANGED <<networkHistory, energyHistoryByNodes, DeviceModels, panicked, pending, resolved, listed,
                   registeredAt>>

\* EnergyAnalyser.SetDeviceModel: false for an id that is a key of e.nodes;
\* otherwise NodeEnergy.SetDeviceModel on the nil entry of the id
SetDeviceModel(nodeID, model) ==
    /\ Called
    /\ panicked' = (SetDeviceModelReturns(nodeID, model) = "panic")
    /\ UNCHANGED <<nodes, networkHistory, energyHistoryByNodes, DeviceModels, pending,
                   resolved, listed, registeredAt>>

\* mutant: the state is switched before the elapsed time is booked
SetRadioState_SwitchesFirst(nodeID, state, timestamp, txPower, rxOnWhenIdle) ==
    /\ Called
    /\ nodeID \in DOMAIN nodes
    /\ nodes' = [nodes EXCEPT ![nodeID] =
                    ComputeRadioState([@ EXCEPT !.State = state], timestamp,
                                      txPower, rxOnWhenIdle)]
    /\ UNCHANGED <<networkHistory, energyHistoryByNodes, DeviceModels, panicked,
                   registeredAt, pending, resolved, listed>>

\* GetNode(nodeID).SetRadioState(state, timestamp) for a registered node
SetRadioState(nodeID, state, timestamp, txPower, rxOnWhenIdle) ==
    /\ Called
    /\ nodeID \in DOMAIN nodes
    /\ nodes' = [nodes EXCEPT ![nodeID] =
                    [ComputeRadioState(@, timestamp, txPower, rxOnWhenIdle)
                        EXCEPT !.State = state]]
    /\ UNCHANGED <<networkHistory, energyHistoryByNodes, DeviceModels, panicked,
                   registeredAt, pending, resolved, listed>>

\* mutant: the totals are divided by a fixed node count
StoreNetworkEnergy_FixedNetSize(timestamp, idOrder, read) ==
    /\ Called
    /\ LET out == StoreLoop(idOrder, read, timestamp, MaxNodes,
                            [nodes |-> nodes, models |-> DeviceModels, snap |-> <<>>,
                             net |-> ZeroConsumption, panicked |-> FALSE])
       IN  /\ nodes' = out.nodes
           /\ DeviceModels' = out.models
           /\ panicked' = out.panicked
           /\ UNCHANGED <<registeredAt, pending, resolved, listed>>
           /\ IF out.panicked
              THEN UNCHANGED <<networkHistory, energyHistoryByNodes>>
              ELSE /\ networkHistory' =
                        Append(networkHistory,
                               [Timestamp          |-> timestamp,
                                EnergyConsDisabled |-> out.net.EnergyConsDisabled,
                                EnergyConsSleep    |-> out.net.EnergyConsSleep,
                                EnergyConsTx       |-> out.net.EnergyConsTx,
                                EnergyConsRx       |-> out.net.EnergyConsRx])
                   /\ energyHistoryByNodes' = Append(energyHistoryByNodes, out.snap)

\* mutant: the energies are computed from the times as they were before the
\* call; the nodes are brought up to timestamp all the same
StoreNetworkEnergy_EnergiesOfOldTimes(timestamp, idOrder, read) ==
    /\ Called
    /\ LET start == [nodes |-> nodes, models |-> DeviceModels, snap |-> <<>>,
                     net |-> ZeroConsumption, panicked |-> FALSE]
           out == StoreLoop(idOrder, read, timestamp, Cardinality(DOMAIN nodes), start)
           old == StoreLoop(idOrder, read, timestamp, Cardinality(DOMAIN nodes),
                            [start EXCEPT !.nodes =
                                [n \in DOMAIN nodes |->
                                    [nodes[n] EXCEPT !.Timestamp = timestamp]]])
       IN  /\ nodes' = out.nodes
           /\ DeviceModels' = out.models
           /\ panicked' = out.panicked
           /\ UNCHANGED <<registeredAt, pending, resolved, listed>>
           /\ IF out.panicked
              THEN UNCHANGED <<networkHistory, energyHistoryByNodes>>
              ELSE /\ networkHistory' =
                        Append(networkHistory,
                               [Timestamp          |-> timestamp,
                                EnergyConsDisabled |-> old.net.EnergyConsDisabled,
                                EnergyConsSleep    |-> old.net.EnergyConsSleep,
                                EnergyConsTx       |-> old.net.EnergyConsTx,
                                EnergyConsRx       |-> old.net.EnergyConsRx])
                   /\ energyHistoryByNodes' = Append(energyHistoryByNodes, old.snap)

\* mutant: a node whose four energies are all zero gets no record
StoreNetworkEnergy_OmitsZeroRecords(timestamp, idOrder, read) ==
    /\ Called
    /\ LET out == StoreLoop(idOrder, read, timestamp, Cardinality(DOMAIN nodes),
                            [nodes |-> nodes, models |-> DeviceModels, snap |-> <<>>,
                             net |-> ZeroConsumption, panicked |-> FALSE])
       IN  /\ nodes' = out.nodes
           /\ DeviceModels' = out.models
           /\ panicked' = out.panicked
           /\ UNCHANGED <<registeredAt, pending, resolved, listed>>
           /\ IF out.panicked
              THEN UNCHANGED <<networkHistory, energyHistoryByNodes>>
              ELSE /\ networkHistory' =
                        Append(networkHistory,
                               [Timestamp          |-> timestamp,
                                EnergyConsDisabled |-> out.net.EnergyConsDisabled,
                                EnergyConsSleep    |-> out.net.EnergyConsSleep,
                                EnergyConsTx       |-> out.net.EnergyConsTx,
                                EnergyConsRx       |-> out.net.EnergyConsRx])
                   /\ energyHistoryByNodes' =
                        Append(energyHistoryByNodes,
                               SelectSeq(out.snap,
                                         LAMBDA e : e.Disabled + e.Sleep + e.Tx + e.Rx > 0))

StoreNetworkEnergy(timestamp, idOrder, read) ==
    /\ Called
    /\ LET out == StoreLoop(idOrder, read, timestamp, Cardinality(DOMAIN nodes),
                            [nodes |-> nodes, models |-> DeviceModels, snap |-> <<>>,
                             net |-> ZeroConsumption, panicked |-> FALSE])
       IN  /\ nodes' = out.nodes
           /\ DeviceModels' = out.models
           /\ panicked' = out.panicked
           /\ UNCHANGED <<registeredAt, pending, resolved, listed>>
           /\ IF out.panicked
              THEN UNCHANGED <<networkHistory, energyHistoryByNodes>>
              ELSE /\ networkHistory' =
                        Append(networkHistory,
                               [Timestamp          |-> timestamp,
                                EnergyConsDisabled |-> out.net.EnergyConsDisabled,
                                EnergyConsSleep    |-> out.net.EnergyConsSleep,
                                EnergyConsTx       |-> out.net.EnergyConsTx,
                                EnergyConsRx       |-> out.net.EnergyConsRx])
                   /\ energyHistoryByNodes' = Append(energyHistoryByNodes, out.snap)

\* mutant: a model exists when a registered node uses it
DeviceModelExistsReturns_InUse(model) == \E n \in DOMAIN nodes : nodes[n].Model = model

\* what DeviceModelExists(model) returns: the ok of the lookup DeviceModels[model]
DeviceModelExistsReturns(model) == model \in DOMAIN DeviceModels

\* EnergyAnalyser.DeviceModelExists: a lookup, nothing is written
DeviceModelExists(model) ==
    /\ Called
    /\ DeviceModelExistsReturns(model) \in BOOLEAN
    /\ UNCHANGED <<nodes, networkHistory, energyHistoryByNodes, DeviceModels, panicked,
                   pending, resolved, listed, registeredAt>>

\* e.networkHistory[len(e.networkHistory)-1]: the last snapshot, or an index out
\* of range when the history is empty
GetNetworkLatestSnapReturns ==
    IF networkHistory = <<>> THEN [panic |-> TRUE]
    ELSE [panic |-> FALSE, value |-> networkHistory[Len(networkHistory)]]

\* e.energyHistoryByNodes[len(e.energyHistoryByNodes)-1], likewise
GetLatestEnergyOfNodesReturns ==
    IF energyHistoryByNodes = <<>> THEN [panic |-> TRUE]
    ELSE [panic |-> FALSE, value |-> energyHistoryByNodes[Len(energyHistoryByNodes)]]

GetNetworkLatestSnap ==
    /\ Called
    /\ panicked' = GetNetworkLatestSnapReturns.panic
    /\ UNCHANGED <<nodes, networkHistory, energyHistoryByNodes, DeviceModels, pending,
                   resolved, listed, registeredAt>>

GetLatestEnergyOfNodes ==
    /\ Called
    /\ panicked' = GetLatestEnergyOfNodesReturns.panic
    /\ UNCHANGED <<nodes, networkHistory, energyHistoryByNodes, DeviceModels, pending,
                   resolved, listed, registeredAt>>

\* StoreNetworkEnergy up to and including its first append
\* (e.networkHistory = append(...)); the batch built by the loop is still local
StoreBegin(timestamp, idOrder, read) ==
    /\ Called
    /\ pending = <<>>
    /\ LET out == StoreLoop(idOrder, read, timestamp, Cardinality(DOMAIN nodes),
                            [nodes |-> nodes, models |-> DeviceModels, snap |-> <<>>,
                             net |-> ZeroConsumption, panicked |-> FALSE])
       IN  /\ nodes' = out.nodes
           /\ DeviceModels' = out.models
           /\ panicked' = out.panicked
           /\ UNCHANGED <<registeredAt, energyHistoryByNodes, resolved, listed>>
           /\ IF out.panicked
              THEN UNCHANGED <<networkHistory, pending>>
              ELSE /\ networkHistory' =
                        Append(networkHistory,
                               [Timestamp          |-> timestamp,
                                EnergyConsDisabled |-> out.net.EnergyConsDisabled,
                                EnergyConsSleep    |-> out.net.EnergyConsSleep,
                                EnergyConsTx       |-> out.net.EnergyConsTx,
                                EnergyConsRx       |-> out.net.EnergyConsRx])
                   /\ pending' = <<out.snap>>

\* the second append of StoreNetworkEnergy
\* (e.energyHistoryByNodes = append(...)), after which the call returns
StoreEnd ==
    /\ pending # <<>>
    /\ energyHistoryByNodes' = Append(energyHistoryByNodes, pending[1])
    /\ pending' = <<>>
    /\ UNCHANGED <<nodes, networkHistory, DeviceModels, panicked, calls, registeredAt,
                   resolved, listed>>

-----------------------------------------------------------------------------
(* NewEnergyAnalyser, and the calls the simulation makes *)

Init ==
    /\ nodes = EmptyMap
    /\ networkHistory = <<>>
    /\ energyHistoryByNodes = <<>>
    /\ DeviceModels = InitDeviceModels
    /\ panicked = FALSE
    /\ calls = 0
    /\ registeredAt = EmptyMap
    /\ pending = <<>>
    /\ resolved = <<>>
    /\ listed = <<>>

\* every order a range over SpentTx can take, as an order of all levels
TxOrders == Orders(TxPowers)

\* what a call on node can read through node.txPower and node.nodeMode, and the
\* orders its range over SpentTx can take; a value the call does not use is
\* listed once only
Reads(node) ==
    [txPower      : IF node.State = "RadioTx" THEN TxPowers ELSE {Min(TxPowers)},
     rxOnWhenIdle : IF node.State = "RadioSleep" THEN BOOLEAN ELSE {FALSE},
     txOrder      : IF node.SpentTx = EmptyMap /\ node.State # "RadioTx"
                    THEN {SortInts(TxPowers)} ELSE TxOrders]

\* one Reads record for each node of ids
RECURSIVE StoreReads(_)
StoreReads(ids) ==
    IF ids = {} THEN {EmptyMap}
    ELSE LET n == Min(ids)
         IN  {[i \in DOMAIN f \cup {n} |-> IF i = n THEN r ELSE f[i]] :
                f \in StoreReads(ids \ {n}), r \in Reads(nodes[n])}

\* the simulation's clock does not run backwards: no call carries a timestamp
\* before the last timestamp of a registered node
NotBefore(t) == \A n \in DOMAIN nodes : t >= nodes[n].Timestamp

Next ==
    \/ \E nodeID \in NodeIds, t \in Timestamps, model \in ModelArgs :
            /\ NotBefore(t)
            /\ AddNode(nodeID, t, model)
    \/ \E nodeID \in NodeIds : DeleteNode(nodeID)
    \/ \E nodeID \in NodeIds, model \in ModelArgs : SetDeviceModel(nodeID, model)
    \/ \E model \in ModelArgs : DeviceModelExists(model)
    \/ GetNetworkLatestSnap
    \/ GetLatestEnergyOfNodes
    \/ \E nodeID \in DOMAIN nodes, state \in RadioStates, t \in Timestamps :
            /\ NotBefore(t)
            /\ \E r \in Reads(nodes[nodeID]) :
                    SetRadioState(nodeID, state, t, r.txPower, r.rxOnWhenIdle)
    \/ \E t \in Timestamps, idOrder \in Orders(DOMAIN nodes) :
            /\ NotBefore(t)
            /\ \E read \in StoreReads(DOMAIN nodes) :
                    StoreNetworkEnergy(t, idOrder, read)

Spec == Init /\ [][Next]_vars

\* the same calls with StoreNetworkEnergy taken statement by statement: a state
\* between StoreBegin and StoreEnd is what a reader running on another goroutine
\* finds through GetNetworkEnergyHistory and GetEnergyHistoryByNodes, which take
\* no lock; the simulation itself makes no other call until the capture returns
NextInterleaved ==
    \/ \E nodeID \in NodeIds, t \in Timestamps, model \in ModelArgs :
            /\ pending = <<>>
            /\ NotBefore(t)
            /\ AddNode(nodeID, t, model)
    \/ \E nodeID \in NodeIds : pending = <<>> /\ DeleteNode(nodeID)
    \/ \E nodeID \in NodeIds, model \in ModelArgs :
            pending = <<>> /\ SetDeviceModel(nodeID, model)
    \/ \E model \in ModelArgs : pending = <<>> /\ DeviceModelExists(model)
    \/ pending = <<>> /\ GetNetworkLatestSnap
    \/ pending = <<>> /\ GetLatestEnergyOfNodes
    \/ \E nodeID \in DOMAIN nodes, state \in RadioStates, t \in Timestamps :
            /\ pending = <<>>
            /\ NotBefore(t)
            /\ \E r \in Reads(nodes[nodeID]) :
                    SetRadioState(nodeID, state, t, r.txPower, r.rxOnWhenIdle)
    \/ \E t \in Timestamps, idOrder \in Orders(DOMAIN nodes) :
            /\ NotBefore(t)
            /\ \E read \in StoreReads(DOMAIN nodes) :
                    StoreBegin(t, idOrder, read)
    \/ StoreEnd

SpecInterleaved == Init /\ [][NextInterleaved]_vars

-----------------------------------------------------------------------------
(* The same calls from a caller whose clock may run backwards *)

\* the calls of Next with any timestamp: neither AddNode nor SetRadioState nor
\* StoreNetworkEnergy compares the timestamp it is given with an earlier one
NextRegress ==
    \/ \E nodeID \in NodeIds, t \in Timestamps, model \in ModelArgs :
            AddNode(nodeID, t, model)
    \/ \E nodeID \in NodeIds : DeleteNode(nodeID)
    \/ \E nodeID \in NodeIds, model \in ModelArgs : SetDeviceModel(nodeID, model)
    \/ \E model \in ModelArgs : DeviceModelExists(model)
    \/ GetNetworkLatestSnap
    \/ GetLatestEnergyOfNodes
    \/ \E nodeID \in DOMAIN nodes, state \in RadioStates, t \in Timestamps :
            \E r \in Reads(nodes[nodeID]) :
                SetRadioState(nodeID, state, t, r.txPower, r.rxOnWhenIdle)
    \/ \E t \in Timestamps, idOrder \in Orders(DOMAIN nodes) :
            \E read \in StoreReads(DOMAIN nodes) :
                StoreNetworkEnergy(t, idOrder, read)

SpecRegress == Init /\ [][NextRegress]_vars

-----------------------------------------------------------------------------
(* The same calls after a first registration that has left its mark *)

\* node 1 after AddNode(1, 0, "xxx") and SetRadioState(RadioTx, 0)
ReRegisterNode ==
    [Model |-> "xxx", State |-> "RadioTx", SpentDisabled |-> 0, SpentSleep |-> 0,
     SpentRx |-> 0, SpentTx |-> EmptyMap, Timestamp |-> 0]

\* the StoreNetworkEnergy(1) that follows, with txPower pointing to the
\* uncalibrated level 5: one time unit at level 5, which the profile now caches
ReRegisterStart ==
    StoreLoop(<<1>>,
              [i \in {1} |-> [txPower |-> 5, rxOnWhenIdle |-> FALSE,
                              txOrder |-> SortInts(TxPowers)]],
              1, 1,
              [nodes |-> [i \in {1} |-> ReRegisterNode], models |-> InitDeviceModels,
               snap |-> <<>>, net |-> ZeroConsumption, panicked |-> FALSE])

\* the state these three calls lead to from Init; calls counts the calls made
\* from here on
InitReRegister ==
    /\ nodes = ReRegisterStart.nodes
    /\ DeviceModels = ReRegisterStart.models
    /\ networkHistory = <<[Timestamp          |-> 1,
                           EnergyConsDisabled |-> ReRegisterStart.net.EnergyConsDisabled,
                           EnergyConsSleep    |-> ReRegisterStart.net.EnergyConsSleep,
                           EnergyConsTx       |-> ReRegisterStart.net.EnergyConsTx,
                           EnergyConsRx       |-> ReRegisterStart.net.EnergyConsRx]>>
    /\ energyHistoryByNodes = <<ReRegisterStart.snap>>
    /\ panicked = FALSE
    /\ calls = 0
    /\ registeredAt = [i \in {1} |-> 0]
    /\ pending = <<>>
    /\ resolved = <<>>
    /\ listed = <<>>

SpecReRegister == InitReRegister /\ [][Next]_vars

-----------------------------------------------------------------------------
(* The resolution of transmit draws taken on its own *)

\* the profile whose draws are looked up, and the levels asked for
ResolveModel == "xxx"

ResolveLevels == {-15, 5, 7, 10, 25, 30}

\* the calibrated levels of the profile: DeviceModel.TxPowerConsumption is an
\* exported map, sparse or empty (nil), so every part of the compiled-in table is
\* taken as a starting profile
InitResolve ==
    /\ nodes = EmptyMap
    /\ networkHistory = <<>>
    /\ energyHistoryByNodes = <<>>
    /\ panicked = FALSE
    /\ calls = 0
    /\ registeredAt = EmptyMap
    /\ pending = <<>>
    /\ resolved = <<>>
    /\ listed = <<>>
    /\ \E levels \in SUBSET DOMAIN InitDeviceModels[ResolveModel].TxPowerConsumption :
          DeviceModels =
              [InitDeviceModels EXCEPT ![ResolveModel].TxPowerConsumption =
                    [l \in levels |-> @[l]]]

\* one evaluation of the lookup of CalculateTxEnergy for txPower
Resolve(txPower) ==
    /\ LET found == Consumption(DeviceModels[ResolveModel].TxPowerConsumption, txPower)
       IN  /\ DeviceModels' =
                 [DeviceModels EXCEPT ![ResolveModel].TxPowerConsumption = found.map]
           /\ resolved' = <<[txPower |-> txPower, value |-> found.value]>>
    /\ UNCHANGED <<nodes, networkHistory, energyHistoryByNodes, panicked, calls,
                   registeredAt, pending, listed>>

NextResolve == \E txPower \in ResolveLevels : Resolve(txPower)

SpecResolve == InitResolve /\ [][NextResolve]_vars

-----------------------------------------------------------------------------
(* The listing of the registry taken on its own *)

\* Go strings are byte sequences; sort.Strings compares them byte by byte. A
\* string is the sequence of its bytes (ASCII codes)
\* "stm32wb55rg"
Key_stm32wb55rg ==
    <<115, 116, 109, 51, 50, 119, 98, 53, 53, 114, 103>>

\* "esp32h2"
Key_esp32h2 ==
    <<101, 115, 112, 51, 50, 104, 50>>

\* "nrf52840"
Key_nrf52840 ==
    <<110, 114, 102, 53, 50, 56, 52, 48>>

\* "nrf5340"
Key_nrf5340 ==
    <<110, 114, 102, 53, 51, 52, 48>>

\* "xxx"
Key_xxx ==
    <<120, 120, 120>>

\* "yyy"
Key_yyy ==
    <<121, 121, 121>>

\* the keys, names and descriptions of the registries as compiled in: the four
\* profiles of devicemodel_types.go, and "xxx" and "yyy" of the table without
\* descriptions, whose Description is the empty string
ListedModels ==
    [key \in {Key_stm32wb55rg, Key_esp32h2, Key_nrf52840, Key_nrf5340, Key_xxx, Key_yyy} |->
        CASE key = Key_stm32wb55rg ->
                \* "STM32WB55RG", "U=3.3V-all data from datasheet"
                [Name        |-> <<83, 84, 77, 51, 50, 87, 66, 53, 53, 82, 71>>,
                 Description |-> <<85, 61, 51, 46, 51, 86, 45, 97, 108, 108, 32, 100, 97, 116, 97, 32, 102, 114, 111, 109, 32, 100, 97, 116, 97, 115, 104, 101, 101, 116>>]
          [] key = Key_esp32h2 ->
                \* "ESP32-H2", "measured at U=3.3V"
                [Name        |-> <<69, 83, 80, 51, 50, 45, 72, 50>>,
                 Description |-> <<109, 101, 97, 115, 117, 114, 101, 100, 32, 97, 116, 32, 85, 61, 51, 46, 51, 86>>]
          [] key = Key_nrf52840 ->
                \* "nRF52840", "measured at U=3.0V"
                [Name        |-> <<110, 82, 70, 53, 50, 56, 52, 48>>,
                 Description |-> <<109, 101, 97, 115, 117, 114, 101, 100, 32, 97, 116, 32, 85, 61, 51, 46, 48, 86>>]
          [] key = Key_nrf5340 ->
                \* "nRF5340", "measured at U=3.0V"
                [Name        |-> <<110, 82, 70, 53, 51, 52, 48>>,
                 Description |-> <<109, 101, 97, 115, 117, 114, 101, 100, 32, 97, 116, 32, 85, 61, 51, 46, 48, 86>>]
          [] key = Key_xxx ->
                \* "xxx", ""
                [Name        |-> <<120, 120, 120>>,
                 Description |-> <<>>]
          [] key = Key_yyy ->
                \* "yyy", ""
                [Name        |-> <<121, 121, 121>>,
                 Description |-> <<>>]]

\* a < b for Go strings
RECURSIVE StringLess(_, _)
StringLess(a, b) ==
    IF b = <<>> THEN FALSE
    ELSE IF a = <<>> THEN TRUE
    ELSE IF Head(a) # Head(b) THEN Head(a) < Head(b)
    ELSE StringLess(Tail(a), Tail(b))

\* mutant: the slice is returned in the order the range over the map built it
SortStrings_NotSorted(out) == out

\* sort.Strings
RECURSIVE SortStrings(_)
SortStrings(out) ==
    IF out = <<>> THEN <<>>
    ELSE LET i == CHOOSE i \in 1..Len(out) :
                    \A j \in 1..Len(out) : ~StringLess(out[j], out[i])
         IN  <<out[i]>> \o SortStrings(SubSeq(out, 1, i - 1) \o SubSeq(out, i + 1, Len(out)))

\* fmt.Sprintf("%s\t %s, %s", key, dm.Name, dm.Description)
Sprintf(key, dm) == key \o <<9, 32>> \o dm.Name \o <<44, 32>> \o dm.Description

\* what GetAllDeviceModelsBrief returns when the range over DeviceModels runs in order
GetAllDeviceModelsBriefReturns(order) ==
    SortStrings([i \in 1..Len(order) |-> Sprintf(order[i], DeviceModels[order[i]])])

\* what GetAllDeviceModelNames returns when the range over DeviceModels runs in order
GetAllDeviceModelNamesReturns(order) == SortStrings(order)

GetAllDeviceModelsBrief(order) ==
    /\ listed' = <<[fn |-> "GetAllDeviceModelsBrief",
                    out |-> GetAllDeviceModelsBriefReturns(order)]>>
    /\ UNCHANGED <<nodes, networkHistory, energyHistoryByNodes, DeviceModels, panicked,
                   calls, registeredAt, pending, resolved>>

GetAllDeviceModelNames(order) ==
    /\ listed' = <<[fn |-> "GetAllDeviceModelNames",
                    out |-> GetAllDeviceModelNamesReturns(order)]>>
    /\ UNCHANGED <<nodes, networkHistory, energyHistoryByNodes, DeviceModels, panicked,
                   calls, registeredAt, pending, resolved>>

\* DeviceModels is an exported map that a build fills with the profiles it
\* supports: every part of the compiled-in tables is taken as a registry
InitList ==
    /\ nodes = EmptyMap
    /\ networkHistory = <<>>
    /\ energyHistoryByNodes = <<>>
    /\ panicked = FALSE
    /\ calls = 0
    /\ registeredAt = EmptyMap
    /\ pending = <<>>
    /\ resolved = <<>>
    /\ listed = <<>>
    /\ \E keys \in SUBSET DOMAIN ListedModels :
          DeviceModels = [key \in keys |-> ListedModels[key]]

NextList ==
    \E order \in Orders(DOMAIN DeviceModels) :
        \/ GetAllDeviceModelsBrief(order)
        \/ GetAllDeviceModelNames(order)

SpecList == InitList /\ [][NextList]_vars

-----------------------------------------------------------------------------
(* Vocabulary of the properties *)

RECURSIVE SumOver(_, _)
SumOver(f, S) == IF S = {} THEN 0 ELSE f[Min(S)] + SumOver(f, S \ {Min(S)})

\* all the time a tracker has booked
TotalSpent(node) ==
    node.SpentDisabled + node.SpentSleep + node.SpentRx
        + SumOver(node.SpentTx, DOMAIN node.SpentTx)

\* transmit-time at a level, 0 when the level has no entry
SpentTxAt(node, level) == IF level \in DOMAIN node.SpentTx THEN node.SpentTx[level] ELSE 0

\* after holds the time accumulators of before with d more in the one bucket named
CreditedTo(bucket, level, before, after, d) ==
    /\ after.SpentDisabled = before.SpentDisabled + (IF bucket = "disabled" THEN d ELSE 0)
    /\ after.SpentSleep = before.SpentSleep + (IF bucket = "sleep" THEN d ELSE 0)
    /\ after.SpentRx = before.SpentRx + (IF bucket = "receive" THEN d ELSE 0)
    /\ \A l \in TxPowers :
          SpentTxAt(after, l) =
              SpentTxAt(before, l) + (IF bucket = "transmit" /\ l = level THEN d ELSE 0)
    /\ DOMAIN after.SpentTx \subseteq TxPowers

\* the bucket named after a radio state
BucketNamedAfter(state) ==
    CASE state = "RadioDisabled" -> "disabled"
      [] state = "RadioSleep" -> "sleep"
      [] state = "RadioRx" -> "receive"
      [] state = "RadioTx" -> "transmit"
      [] state = "RadioInvalid" -> "none"

\* the bucket the source books a state to: Sleep counts as disabled-time while
\* the node is rx-on-when-idle
BucketBooked(state, rxOnWhenIdle) ==
    IF state = "RadioSleep" /\ rxOnWhenIdle THEN "disabled" ELSE BucketNamedAfter(state)

\* position k of idOrder is reached by the loop of StoreNetworkEnergy
Reached(idOrder, nodeID) ==
    \E k \in 1..Len(idOrder) :
        /\ idOrder[k] = nodeID
        /\ \A j \in 1..(k - 1) : nodes[idOrder[j]].Model # NilModel

\* this step ran ComputeRadioState(timestamp) on node nodeID, reading txPower and
\* rxOnWhenIdle through its pointers: a SetRadioState, or a StoreNetworkEnergy
Accumulate(nodeID, timestamp, txPower, rxOnWhenIdle) ==
    \/ \E state \in RadioStates :
            SetRadioState(nodeID, state, timestamp, txPower, rxOnWhenIdle)
    \/ /\ networkHistory' # networkHistory \/ panicked'
       /\ \E idOrder \in Orders(DOMAIN nodes), read \in StoreReads(DOMAIN nodes) :
            /\ Reached(idOrder, nodeID)
            /\ read[nodeID].txPower = txPower
            /\ read[nodeID].rxOnWhenIdle = rxOnWhenIdle
            /\ StoreNetworkEnergy(timestamp, idOrder, read)

-----------------------------------------------------------------------------
(* C1 *)

\* C1 (as stated): for every registered node, disabled + sleep + receive + all
\* transmit time equals its last accumulated timestamp minus the timestamp it
\* was registered with.
C1_Conservation ==
    \A id \in DOMAIN nodes :
        TotalSpent(nodes[id]) = nodes[id].Timestamp - registeredAt[id]

\* C1 (amended): every step adds to a registered node's booked time exactly the
\* advance of its last timestamp when the node's state before the step is
\* Disabled, Sleep, Receive or Transmit, and adds nothing when it is Invalid; so
\* the booked time is the time since registration less the time spent Invalid.
C1_ConservationOutsideInvalid ==
    [][\A id \in DOMAIN nodes \cap DOMAIN nodes' :
          TotalSpent(nodes'[id]) - TotalSpent(nodes[id]) =
              IF nodes[id].State = "RadioInvalid" THEN 0
              ELSE nodes'[id].Timestamp - nodes[id].Timestamp]_vars

\* a node whose two elapsed time units were booked to two different buckets
C1_Witness ==
    \E id \in DOMAIN nodes :
        /\ nodes[id].Timestamp - registeredAt[id] = 2
        /\ TotalSpent(nodes[id]) = 2
        /\ nodes[id].SpentRx = 1

-----------------------------------------------------------------------------
(* C2 *)

\* C2 (as stated): accumulate(timestamp) adds timestamp - lastTimestamp to the
\* bucket named after the node's state and to no other (Disabled to
\* disabled-time, Sleep to sleep-time, Receive to receive-time), whatever the
\* node mode.
C2_BucketNamedAfterState ==
    [][\A id \in DOMAIN nodes, t \in Timestamps, p \in TxPowers, b \in BOOLEAN :
          (/\ nodes[id].State \in {"RadioDisabled", "RadioSleep", "RadioRx"}
           /\ Accumulate(id, t, p, b))
          => CreditedTo(BucketNamedAfter(nodes[id].State), p, nodes[id], nodes'[id],
                        t - nodes[id].Timestamp)]_vars

\* C2 (amended): as stated for Disabled and Receive; Sleep adds to sleep-time
\* when the node is not rx-on-when-idle and to disabled-time when it is.
C2_BucketDependsOnNodeMode ==
    [][\A id \in DOMAIN nodes, t \in Timestamps, p \in TxPowers, b \in BOOLEAN :
          (/\ nodes[id].State \in {"RadioDisabled", "RadioSleep", "RadioRx"}
           /\ Accumulate(id, t, p, b))
          => CreditedTo(BucketBooked(nodes[id].State, b), p, nodes[id], nodes'[id],
                        t - nodes[id].Timestamp)]_vars

\* a sleeping node about to accumulate one time unit while rx-on-when-idle, next
\* to time already booked as sleep-time
C2_Witness ==
    \E id \in DOMAIN nodes :
        /\ nodes[id].State = "RadioSleep"
        /\ nodes[id].SpentSleep > 0
        /\ nodes[id].Timestamp < MaxTime
        /\ ENABLED (/\ SetRadioState(id, "RadioRx", nodes[id].Timestamp + 1, 0, TRUE)
                    /\ nodes'[id].SpentDisabled = nodes[id].SpentDisabled + 1)

-----------------------------------------------------------------------------
(* C3 *)

\* C3 (as stated): setState(newState, t) credits the whole interval from
\* lastTimestamp to t to the bucket of the state that was current before the call
\* and nothing to any other bucket, newState's included; afterwards the state is
\* newState and lastTimestamp is t.
C3_OldStateBucketCredited ==
    [][\A id \in DOMAIN nodes, s \in RadioStates, t \in Timestamps,
          p \in TxPowers, b \in BOOLEAN :
          SetRadioState(id, s, t, p, b)
          => /\ CreditedTo(BucketNamedAfter(nodes[id].State), p, nodes[id], nodes'[id],
                           t - nodes[id].Timestamp)
             /\ nodes'[id].State = s
             /\ nodes'[id].Timestamp = t]_vars

\* C3 (amended): the interval is credited to the bucket accumulate books the old
\* state to (disabled-time for Sleep while rx-on-when-idle, none for Invalid) and
\* to no other; the choice does not depend on newState; afterwards the state is
\* newState and lastTimestamp is t.
C3_AccumulateThenSwitch ==
    [][\A id \in DOMAIN nodes, s \in RadioStates, t \in Timestamps,
          p \in TxPowers, b \in BOOLEAN :
          SetRadioState(id, s, t, p, b)
          => /\ CreditedTo(BucketBooked(nodes[id].State, b), p, nodes[id], nodes'[id],
                           t - nodes[id].Timestamp)
             /\ nodes'[id].State = s
             /\ nodes'[id].Timestamp = t]_vars

\* a node that left Receive for Transmit after one time unit: the unit is
\* receive-time, and there is no transmit-time
C3_Witness ==
    \E id \in DOMAIN nodes :
        /\ nodes[id].State = "RadioTx"
        /\ nodes[id].SpentRx = 1
        /\ nodes[id].SpentTx = EmptyMap
        /\ nodes[id].Timestamp = registeredAt[id] + 1

-----------------------------------------------------------------------------
(* C4 *)

\* the four totals of node under the profiles of models, for every order the
\* range over its SpentTx can take
EnergiesOf(node, models) ==
    {NodeEnergyOf(node, models, Restrict(o, DOMAIN node.SpentTx)) : o \in TxOrders}

\* C4: for every node that stays registered and has a profile, each of the four
\* energy totals (disabled, sleep, transmit, receive) computed after a step is
\* greater than or equal to the same total computed before the step, also when
\* the step resolved transmit levels and cached them in the profile.
C4_Monotonicity ==
    [][\A id \in DOMAIN nodes \cap DOMAIN nodes' :
          nodes[id].Model # NilModel
          => \A before \in EnergiesOf(nodes[id], DeviceModels),
                after \in EnergiesOf(nodes'[id], DeviceModels') :
                /\ after.Disabled >= before.Disabled
                /\ after.Sleep >= before.Sleep
                /\ after.Tx >= before.Tx
                /\ after.Rx >= before.Rx]_vars

\* a node with transmit-time at the uncalibrated level 5, after a capture has
\* resolved the level and cached it in the node's profile
C4_Witness ==
    \E id \in DOMAIN nodes :
        /\ nodes[id].Model = "xxx"
        /\ SpentTxAt(nodes[id], 5) > 0
        /\ 5 \in DOMAIN DeviceModels["xxx"].TxPowerConsumption
        /\ Len(energyHistoryByNodes) > 0
        /\ \E k \in 1..Len(energyHistoryByNodes[Len(energyHistoryByNodes)]) :
              LET e == energyHistoryByNodes[Len(energyHistoryByNodes)][k]
              IN  e.NodeId = id /\ e.Tx > 0

-----------------------------------------------------------------------------
(* C5 *)

Last(s) == s[Len(s)]

Front(s) == SubSeq(s, 1, Len(s) - 1)

\* the two histories received one entry each from a capture at timestamp: the
\* network snapshot carries timestamp, and the batch holds one record for each
\* registered node with the energies of that node as accumulated up to timestamp
AppendedBy(timestamp) ==
    /\ Len(networkHistory') = Len(networkHistory) + 1
    /\ Len(energyHistoryByNodes') = Len(energyHistoryByNodes) + 1
    /\ Front(networkHistory') = networkHistory
    /\ Front(energyHistoryByNodes') = energyHistoryByNodes
    /\ Last(networkHistory').Timestamp = timestamp
    /\ LET batch == Last(energyHistoryByNodes')
       IN  /\ {batch[k].NodeId : k \in 1..Len(batch)} = DOMAIN nodes
           /\ \A k \in 1..Len(batch) :
                LET node == nodes'[batch[k].NodeId]
                    dm == DeviceModels'[node.Model]
                IN  /\ node.Timestamp = timestamp
                    /\ batch[k].Disabled = CalculateDisabledEnergy(node, dm)
                    /\ batch[k].Sleep = CalculateSleepEnergy(node, dm)
                    /\ batch[k].Rx = CalculateRxEnergy(node, dm)

\* C5: the two histories have the same length in every reachable state; every
\* StoreNetworkEnergy that returns adds exactly one entry to each, both made by
\* that call (the snapshot carries its timestamp, the batch its nodes as of that
\* timestamp); every other step leaves both as they are or empties both, so the
\* entries at one index of the two come from one capture.
C5_PairedHistories ==
    /\ [](Len(networkHistory) = Len(energyHistoryByNodes))
    /\ [][/\ \A t \in Timestamps, idOrder \in Orders(DOMAIN nodes),
               read \in StoreReads(DOMAIN nodes) :
               (StoreNetworkEnergy(t, idOrder, read) /\ ~panicked') => AppendedBy(t)
          /\ \/ UNCHANGED <<networkHistory, energyHistoryByNodes>>
             \/ networkHistory' = <<>> /\ energyHistoryByNodes' = <<>>
             \/ \E t \in Timestamps : AppendedBy(t)]_vars

\* two captures at different timestamps with a node registered: two snapshots and
\* two batches, index by index from the same capture
C5_Witness ==
    /\ Len(networkHistory) = 2
    /\ Len(energyHistoryByNodes) = 2
    /\ networkHistory[1].Timestamp < networkHistory[2].Timestamp
    /\ Len(energyHistoryByNodes[1]) > 0
    /\ Len(energyHistoryByNodes[2]) > 0

-----------------------------------------------------------------------------
(* C6 *)

\* C6: DeleteNode(id) removes the entry of id and leaves every other entry as it
\* is; when no node remains, both histories are empty sequences afterwards.
C6_DeleteNode ==
    [][\A id \in NodeIds :
          DeleteNode(id)
          => /\ DOMAIN nodes' = DOMAIN nodes \ {id}
             /\ \A other \in DOMAIN nodes' : nodes'[other] = nodes[other]
             /\ (DOMAIN nodes \subseteq {id}
                 => networkHistory' = <<>> /\ energyHistoryByNodes' = <<>>)]_vars

\* the last node is registered, a capture is in both histories, and deleting the
\* node empties them
C6_Witness ==
    \E id \in NodeIds :
        /\ DOMAIN nodes = {id}
        /\ Len(networkHistory) > 0
        /\ Len(energyHistoryByNodes) > 0
        /\ ENABLED (/\ DeleteNode(id)
                    /\ nodes' = EmptyMap
                    /\ networkHistory' = <<>>
                    /\ energyHistoryByNodes' = <<>>)

-----------------------------------------------------------------------------
(* C7 *)

\* C7 (as stated): in every reachable state, when no node is registered both
\* histories are empty.
C7_NoNodesNoHistory ==
    DOMAIN nodes = {} => (networkHistory = <<>> /\ energyHistoryByNodes = <<>>)

-----------------------------------------------------------------------------
(* C8 *)

\* C8 (as stated): StoreNetworkEnergy called while no node is registered appends
\* nothing to either history.
C8_NoNodesNothingAppended ==
    [][\A t \in Timestamps :
          (DOMAIN nodes = {} /\ StoreNetworkEnergy(t, <<>>, EmptyMap))
          => UNCHANGED <<networkHistory, energyHistoryByNodes>>]_vars

-----------------------------------------------------------------------------
(* C9 *)

\* C9: AddNode with a node id that is present changes nothing, whatever timestamp
\* and model the call carries: the node's state, profile, timestamp and time
\* accumulators, the set of nodes, both histories and the profiles stay as they
\* are.
C9_ReRegistrationNoOp ==
    [][\A id \in DOMAIN nodes, t \in Timestamps, model \in ModelArgs :
          AddNode(id, t, model)
          => UNCHANGED <<nodes, networkHistory, energyHistoryByNodes, DeviceModels,
                         registeredAt>>]_vars

\* a registered node that has left Disabled and booked time, with a capture in
\* the histories, for which an AddNode with another model and timestamp is
\* possible
C9_Witness ==
    \E id \in DOMAIN nodes :
        /\ nodes[id].State # "RadioDisabled"
        /\ TotalSpent(nodes[id]) > 0
        /\ nodes[id].Model = "xxx"
        /\ Len(networkHistory) > 0
        /\ ENABLED (/\ AddNode(id, MaxTime, "stm32wb55rg")
                    /\ nodes'[id] = nodes[id])

-----------------------------------------------------------------------------
(* C10 *)

\* C10: AddNode(id, t, model) with an id that is not present creates a tracker in
\* state Disabled, with disabled, sleep and receive time zero and no transmit
\* time, with timestamp t and with the profile the registry holds for model (none
\* when model is no key of the registry); no other node and neither history
\* changes.
C10_FreshTracker ==
    [][\A id \in NodeIds \ DOMAIN nodes, t \in Timestamps, model \in ModelArgs :
          AddNode(id, t, model)
          => /\ DOMAIN nodes' = DOMAIN nodes \cup {id}
             /\ nodes'[id].State = "RadioDisabled"
             /\ nodes'[id].SpentDisabled = 0
             /\ nodes'[id].SpentSleep = 0
             /\ nodes'[id].SpentRx = 0
             /\ nodes'[id].SpentTx = EmptyMap
             /\ nodes'[id].Timestamp = t
             /\ nodes'[id].Model =
                    (IF model \in DOMAIN DeviceModels THEN model ELSE NilModel)
             /\ \A other \in DOMAIN nodes : nodes'[other] = nodes[other]
             /\ UNCHANGED <<networkHistory, energyHistoryByNodes>>]_vars

\* a tracker just created at a later timestamp next to a node that has booked
\* time, with a capture in the histories
C10_Witness ==
    \E id, other \in DOMAIN nodes :
        /\ id # other
        /\ nodes[id] = [Model |-> "xxx", State |-> "RadioDisabled", SpentDisabled |-> 0,
                        SpentSleep |-> 0, SpentRx |-> 0, SpentTx |-> EmptyMap,
                        Timestamp |-> registeredAt[id]]
        /\ registeredAt[id] > 0
        /\ TotalSpent(nodes[other]) > 0
        /\ Len(networkHistory) > 0

-----------------------------------------------------------------------------
(* C11 *)

\* this step is a StoreNetworkEnergy(timestamp) that returned
Capture(timestamp) ==
    /\ networkHistory' # networkHistory
    /\ \E idOrder \in Orders(DOMAIN nodes), read \in StoreReads(DOMAIN nodes) :
            StoreNetworkEnergy(timestamp, idOrder, read)

\* the sum of one energy category over the records of a batch
BatchSum(batch, category) ==
    SumOver([k \in 1..Len(batch) |-> batch[k][category]], 1..Len(batch))

\* C11: every StoreNetworkEnergy(t) with at least one node registered appends a
\* network snapshot with Timestamp t whose four totals are each the arithmetic
\* mean of that category over the records of the batch appended by the same call,
\* which holds one record for each registered node and for no other.
C11_NetworkMean ==
    [][\A t \in Timestamps :
          (DOMAIN nodes # {} /\ Capture(t))
          => LET snapshot == Last(networkHistory')
                 batch == Last(energyHistoryByNodes')
                 n == Cardinality(DOMAIN nodes)
             IN  /\ snapshot.Timestamp = t
                 /\ Len(batch) = n
                 /\ {batch[k].NodeId : k \in 1..Len(batch)} = DOMAIN nodes
                 /\ snapshot.EnergyConsDisabled = Rat(BatchSum(batch, "Disabled"), n)
                 /\ snapshot.EnergyConsSleep = Rat(BatchSum(batch, "Sleep"), n)
                 /\ snapshot.EnergyConsTx = Rat(BatchSum(batch, "Tx"), n)
                 /\ snapshot.EnergyConsRx = Rat(BatchSum(batch, "Rx"), n)]_vars

\* a capture of two nodes with different receive energies: the snapshot holds
\* their mean, which is the energy of neither node
C11_Witness ==
    /\ Len(networkHistory) = 1
    /\ Len(energyHistoryByNodes[1]) = 2
    /\ networkHistory[1].Timestamp > 0
    /\ energyHistoryByNodes[1][1].Rx # energyHistoryByNodes[1][2].Rx
    /\ networkHistory[1].EnergyConsRx = Rat(BatchSum(energyHistoryByNodes[1], "Rx"), 2)
    /\ networkHistory[1].EnergyConsRx # Rat(energyHistoryByNodes[1][1].Rx, 1)
    /\ networkHistory[1].EnergyConsRx # Rat(energyHistoryByNodes[1][2].Rx, 1)

-----------------------------------------------------------------------------
(* C12 *)

\* C12 (as stated): in no state that a reader can find, one taken between two
\* statements of a StoreNetworkEnergy in progress included, has one history
\* received the entry of a capture and the other not: the two histories have the
\* same length.  Stated for the captures the spec defines, those with a node
\* registered.
C12_AtomicPairAppend ==
    DOMAIN nodes # {} => Len(networkHistory) = Len(energyHistoryByNodes)

-----------------------------------------------------------------------------
(* C13 *)

\* the mapping of the profile whose draws are looked up
TxMap == DeviceModels[ResolveModel].TxPowerConsumption

\* C13: looking up a level that is no key of a non-empty mapping returns the
\* draw of the greatest key when the level is above every key, and otherwise the
\* draw of the least key strictly greater than the level; looking up a level
\* that is a key returns the draw stored for it.
C13_Resolution ==
    [][\A txPower \in ResolveLevels :
          (TxMap # EmptyMap /\ Resolve(txPower))
          => LET keys == DOMAIN TxMap
                 above == {l \in keys : l > txPower}
             IN  resolved'[1].value =
                    IF txPower \in keys THEN TxMap[txPower]
                    ELSE IF above = {} THEN TxMap[Max(keys)]
                    ELSE TxMap[Min(above)]]_vars

\* with all of -20, -10, 0, 10, 20 calibrated, level 5 has resolved to the draw
\* at 10 and level 25 to the draw at 20
C13_Witness ==
    /\ {-20, -10, 0, 10, 20, 5, 25} = DOMAIN TxMap
    /\ TxMap[5] = InitDeviceModels[ResolveModel].TxPowerConsumption[10]
    /\ TxMap[25] = InitDeviceModels[ResolveModel].TxPowerConsumption[20]
    /\ TxMap[10] # TxMap[0]
    /\ resolved # <<>>

-----------------------------------------------------------------------------
(* C14 *)

\* C14: looking up any level in a profile whose mapping is empty returns the
\* default draw undefinedValue (1.0e-4), and afterwards the level is an entry of
\* the mapping, its only one, with that value.
C14_EmptyProfileFallback ==
    [][\A txPower \in ResolveLevels :
          (TxMap = EmptyMap /\ Resolve(txPower))
          => /\ resolved'[1].value = undefinedValue
             /\ DOMAIN TxMap' = {txPower}
             /\ TxMap'[txPower] = undefinedValue]_vars

\* level 5 was looked up in the empty mapping: it is the only entry, with the
\* default draw, which the lookup returned
C14_Witness ==
    /\ DOMAIN TxMap = {5}
    /\ TxMap[5] = undefinedValue
    /\ resolved = <<[txPower |-> 5, value |-> undefinedValue]>>

-----------------------------------------------------------------------------
(* C15 *)

\* C15: a level that has been looked up is an entry of the mapping with the
\* value the lookup returned; looking up a level that is an entry returns the
\* stored value and leaves the mapping as it is; and no lookup changes the value
\* of an entry, so every later lookup of the level returns the same value.
C15_ResolutionIdempotent ==
    [][\A txPower \in ResolveLevels :
          Resolve(txPower)
          => /\ txPower \in DOMAIN TxMap'
             /\ TxMap'[txPower] = resolved'[1].value
             /\ \A l \in DOMAIN TxMap : l \in DOMAIN TxMap' /\ TxMap'[l] = TxMap[l]
             /\ txPower \in DOMAIN TxMap
                    => resolved'[1].value = TxMap[txPower] /\ TxMap' = TxMap]_vars

\* level 5 was resolved before the last lookup, which was of level 7; looking 5
\* up again returns its entry and changes nothing
C15_Witness ==
    /\ {5, 7, 10} \subseteq DOMAIN TxMap
    /\ resolved # <<>>
    /\ resolved[1].txPower = 7
    /\ ENABLED (/\ Resolve(5)
                /\ resolved'[1].value = TxMap[5]
                /\ TxMap' = TxMap)

-----------------------------------------------------------------------------
(* C16 *)

\* C16: in every mapping a profile can hold, looking up two levels one after
\* the other gives each level the same value and leaves the same mapping
\* whichever of the two is looked up first; so the values and the final mapping
\* are the same for every order in which a set of levels is looked up.
C16_OrderIndependent ==
    \A a, b \in ResolveLevels :
        LET ra  == Consumption(TxMap, a)
            rab == Consumption(ra.map, b)
            rb  == Consumption(TxMap, b)
            rba == Consumption(rb.map, a)
        IN  /\ rab.map = rba.map
            /\ ra.value = rba.value
            /\ rb.value = rab.value

\* level 5 was looked up last, with 7 cached by an earlier lookup; both hold the
\* draw at 10, whichever of the two scans met the entry of the other, and 25,
\* above every key, is still to be looked up
C16_Witness ==
    /\ {-20, -10, 0, 10, 20, 5, 7} = DOMAIN TxMap
    /\ resolved # <<>>
    /\ resolved[1].txPower = 5
    /\ TxMap[5] = TxMap[10]
    /\ TxMap[7] = TxMap[10]
    /\ TxMap[10] # TxMap[20]
    /\ ENABLED (Resolve(25) /\ TxMap'[25] = TxMap[20])

-----------------------------------------------------------------------------
(* C17 *)

\* the draws a profile was loaded with
LoadedDraws(name) ==
    {InitDeviceModels[name].TxPowerConsumption[l] :
        l \in DOMAIN InitDeviceModels[name].TxPowerConsumption}

\* C17: in every reachable state every draw of every profile is non-negative and
\* every entry of a level mapping holds a draw the profile was loaded with or
\* the default undefinedValue; and every step keeps the set of profiles, keeps
\* every level of every mapping with the value stored for it, and keeps the
\* receive, sleep and disabled draws.
C17_ProfileInvariant ==
    /\ [](\A name \in DOMAIN DeviceModels :
            LET dm == DeviceModels[name]
            IN  /\ dm.RxConsumption >= 0
                /\ dm.SleepConsumption >= 0
                /\ dm.DisabledConsumption >= 0
                /\ \A l \in DOMAIN dm.TxPowerConsumption :
                      /\ dm.TxPowerConsumption[l] >= 0
                      /\ dm.TxPowerConsumption[l] \in LoadedDraws(name) \cup {undefinedValue})
    /\ [][/\ DOMAIN DeviceModels' = DOMAIN DeviceModels
          /\ \A name \in DOMAIN DeviceModels :
                LET before == DeviceModels[name]
                    after == DeviceModels'[name]
                IN  /\ after.RxConsumption = before.RxConsumption
                    /\ after.SleepConsumption = before.SleepConsumption
                    /\ after.DisabledConsumption = before.DisabledConsumption
                    /\ \A l \in DOMAIN before.TxPowerConsumption :
                          /\ l \in DOMAIN after.TxPowerConsumption
                          /\ after.TxPowerConsumption[l] = before.TxPowerConsumption[l]]_vars

\* a capture has cached level 5, above the one calibrated level of its profile,
\* next to that level, for a node that is registered with the profile
C17_Witness ==
    /\ DOMAIN DeviceModels["stm32wb55rg"].TxPowerConsumption = {0, 5}
    /\ DeviceModels["stm32wb55rg"].TxPowerConsumption[5] =
            InitDeviceModels["stm32wb55rg"].TxPowerConsumption[0]
    /\ \E id \in DOMAIN nodes : nodes[id].Model = "stm32wb55rg"
    /\ Len(networkHistory) > 0

-----------------------------------------------------------------------------
(* C18 *)

\* the record of node nodeID in a batch
RecordOf(batch, nodeID) ==
    batch[CHOOSE k \in 1..Len(batch) : batch[k].NodeId = nodeID]

\* C18: after a capture, every level at which a node has transmit-time is an
\* entry of the profile registered under the node's model name, the transmit
\* energy recorded for the node is made of the values of these entries, and
\* every node registered with the same model name finds the level as an exact
\* match with that value in its own lookup, which changes the mapping no more.
C18_SharedMemoization ==
    [][\A t \in Timestamps :
          Capture(t)
          => \A id \in DOMAIN nodes :
                LET name == nodes'[id].Model
                    txMap == DeviceModels'[name].TxPowerConsumption
                    spentTx == nodes'[id].SpentTx
                IN  /\ DOMAIN spentTx \subseteq DOMAIN txMap
                    /\ RecordOf(Last(energyHistoryByNodes'), id).Tx =
                          SumOver([l \in DOMAIN spentTx |-> txMap[l] * spentTx[l]],
                                  DOMAIN spentTx)
                    /\ \A other \in DOMAIN nodes', L \in DOMAIN spentTx :
                          nodes'[other].Model = name
                          => Consumption(
                                DeviceModels'[nodes'[other].Model].TxPowerConsumption, L)
                             = [value |-> txMap[L], map |-> txMap]]_vars

\* two nodes registered with the same model name, only one of them with
\* transmit-time at the uncalibrated level 5, after the capture that resolved
\* the level
C18_Witness ==
    \E id, other \in DOMAIN nodes :
        /\ id # other
        /\ nodes[id].Model = "xxx"
        /\ nodes[other].Model = "xxx"
        /\ SpentTxAt(nodes[id], 5) > 0
        /\ nodes[other].SpentTx = EmptyMap
        /\ 5 \in DOMAIN DeviceModels["xxx"].TxPowerConsumption
        /\ Len(energyHistoryByNodes) = 1
        /\ Len(energyHistoryByNodes[1]) = 2

-----------------------------------------------------------------------------
(* C19 *)

\* the time accumulators of a tracker
Buckets(node) == <<node.SpentDisabled, node.SpentSleep, node.SpentRx, node.SpentTx>>

-----------------------------------------------------------------------------
(* C20 *)

\* C20: no step changes the profile of a node that is registered before and
\* after it: the profile a node got when it was registered stays its profile
\* until the node is deleted.
C20_ProfileFixed ==
    [][\A id \in DOMAIN nodes \cap DOMAIN nodes' :
          nodes'[id].Model = nodes[id].Model]_vars

\* a node registered with one model that has changed state, booked time and been
\* captured, and on which SetDeviceModel with another model of the registry can
\* be called, which leaves the profile as it is
C20_Witness ==
    \E id \in DOMAIN nodes :
        /\ nodes[id].Model = "stm32wb55rg"
        /\ nodes[id].State = "RadioRx"
        /\ nodes[id].Timestamp > registeredAt[id]
        /\ Len(networkHistory) > 0
        /\ ENABLED (/\ SetDeviceModel(id, "xxx")
                    /\ nodes'[id].Model = "stm32wb55rg")

-----------------------------------------------------------------------------
(* C21 *)

\* C21 (as stated): in every reachable state, the state right after
\* construction and the states with both histories reset included, a call of
\* GetNetworkLatestSnap and a call of GetLatestEnergyOfNodes return a value.
C21_HistoryReadsTotal ==
    /\ ~GetNetworkLatestSnapReturns.panic
    /\ ~GetLatestEnergyOfNodesReturns.panic

-----------------------------------------------------------------------------
(* C22 *)

\* C22 (as stated): once SetRadioState has put a node into Transmit, one power
\* level p is the node's current level: time accumulated in Transmit from then
\* on is credited to SpentTx[p] and to no other level, whatever call closes the
\* interval.
C22_TransmitLevelSetOnEntry ==
    \A n \in DOMAIN nodes :
        nodes[n].State = "RadioTx" =>
            \E p \in TxPowers :
                \A t \in Timestamps, q \in TxPowers :
                    (/\ t > nodes[n].Timestamp
                     /\ ENABLED (/\ Accumulate(n, t, q, FALSE)
                                 /\ SpentTxAt(nodes'[n], q) > SpentTxAt(nodes[n], q)))
                        => q = p

-----------------------------------------------------------------------------
(* C23 *)

\* C23: the record a capture stores for a node holds the products of the node's
\* accumulated times and the draws of its profile: Disabled, Sleep and Rx are
\* draw times time, Tx is the sum over the levels with transmit-time of the
\* consumption the profile resolves for the level times the time at that level;
\* the order of the levels and what the capture cached on the way change none
\* of them. Computing them changes nothing of the node: after the capture the
\* node is what ComputeRadioState alone has made of it.
C23_EnergiesAreProducts ==
    [][\A t \in Timestamps :
          Capture(t)
          => \A id \in DOMAIN nodes :
                LET node == nodes'[id]
                    dm == DeviceModels[node.Model]
                    e == RecordOf(Last(energyHistoryByNodes'), id)
                IN  /\ e.Disabled = dm.DisabledConsumption * node.SpentDisabled
                    /\ e.Sleep = dm.SleepConsumption * node.SpentSleep
                    /\ e.Rx = dm.RxConsumption * node.SpentRx
                    /\ e.Tx = SumOver([l \in DOMAIN node.SpentTx |->
                                         Consumption(dm.TxPowerConsumption, l).value
                                            * node.SpentTx[l]],
                                      DOMAIN node.SpentTx)
                    /\ \E r \in Reads(nodes[id]) :
                          node = ComputeRadioState(nodes[id], t, r.txPower, r.rxOnWhenIdle)]_vars

\* a capture has stored a record with receive and transmit energy for a node
\* with receive-time and transmit-time at the uncalibrated level 5
C23_Witness ==
    /\ Len(energyHistoryByNodes) = 1
    /\ \E id \in DOMAIN nodes :
          LET e == RecordOf(energyHistoryByNodes[1], id)
          IN  /\ nodes[id].Model # NilModel
              /\ nodes[id].SpentRx > 0
              /\ SpentTxAt(nodes[id], 5) > 0
              /\ e.Rx > 0
              /\ e.Tx > 0

-----------------------------------------------------------------------------
(* C24 *)

\* C24: ComputeRadioState(timestamp) on a node whose state is Invalid changes
\* none of its time accumulators and sets its Timestamp to timestamp: the time
\* elapsed in Invalid is credited to no bucket.
C24_InvalidBooksNothing ==
    [][\A id \in DOMAIN nodes, t \in Timestamps, p \in TxPowers, b \in BOOLEAN :
          (/\ nodes[id].State = "RadioInvalid"
           /\ Accumulate(id, t, p, b))
          => /\ Buckets(nodes'[id]) = Buckets(nodes[id])
             /\ nodes'[id].Timestamp = t]_vars

\* a node that spent one time unit in Invalid and left it: its clock has
\* advanced and no time is booked
C24_Witness ==
    \E id \in DOMAIN nodes :
        /\ nodes[id].State \notin {"RadioInvalid", "RadioDisabled"}
        /\ nodes[id].Timestamp = registeredAt[id] + 1
        /\ TotalSpent(nodes[id]) = 0
        /\ nodes[id].SpentTx = EmptyMap

-----------------------------------------------------------------------------
(* C25 *)

\* C25: ComputeRadioState(t) on a node whose Timestamp is already t, as left by
\* a SetRadioState(_, t) or a StoreNetworkEnergy(t) just before, changes the
\* value of no time accumulator and leaves Timestamp at t.
C25_RepeatedTimestampIdempotent ==
    [][\A id \in DOMAIN nodes, t \in Timestamps, p \in TxPowers, b \in BOOLEAN :
          (/\ nodes[id].Timestamp = t
           /\ Accumulate(id, t, p, b))
          => /\ CreditedTo("none", p, nodes[id], nodes'[id], 0)
             /\ nodes'[id].Timestamp = t]_vars

\* a receiving node with receive-time right after a capture at its Timestamp,
\* about to be switched at the same timestamp
C25_Witness ==
    \E id \in DOMAIN nodes :
        /\ nodes[id].State = "RadioRx"
        /\ nodes[id].SpentRx > 0
        /\ Len(networkHistory) = 1
        /\ Last(networkHistory).Timestamp = nodes[id].Timestamp
        /\ ENABLED (/\ SetRadioState(id, "RadioSleep", nodes[id].Timestamp, 0, FALSE)
                    /\ nodes'[id].SpentRx = nodes[id].SpentRx
                    /\ nodes'[id].Timestamp = nodes[id].Timestamp)

-----------------------------------------------------------------------------
(* C26 *)

\* C26: in every reachable state and for every name, DeviceModelExists(name)
\* returns true when name is one of the keys the registry was compiled with and
\* false when it is not; the call does not panic and changes neither the
\* registry nor a profile.
C26_ExistsIsKeyMembership ==
    /\ [](\A name \in ModelArgs \cup DOMAIN InitDeviceModels :
            DeviceModelExistsReturns(name) = (\E key \in DOMAIN InitDeviceModels : key = name))
    /\ [][\A name \in ModelArgs :
            DeviceModelExists(name) => (DeviceModels' = DeviceModels /\ ~panicked')]_vars

\* a profile has grown by a cached level; a lookup of a known and of an unknown
\* name are about to be made
C26_Witness ==
    /\ DeviceModels # InitDeviceModels
    /\ DeviceModelExistsReturns("xxx")
    /\ ~DeviceModelExistsReturns("nomodel")
    /\ ENABLED DeviceModelExists("xxx")
    /\ ENABLED DeviceModelExists("nomodel")

-----------------------------------------------------------------------------
(* C27 *)

\* the key an entry of a listing stands for: the entry up to its first tab, the
\* whole entry when it holds none
RECURSIVE KeyOf(_)
KeyOf(entry) ==
    IF entry = <<>> \/ Head(entry) = 9 THEN <<>>
    ELSE <<Head(entry)>> \o KeyOf(Tail(entry))

\* C27: whatever the order of the range over the registry, GetAllDeviceModelsBrief
\* and GetAllDeviceModelNames return as many entries as the registry has keys,
\* every key has an entry and no entry stands for anything else, and the entries
\* are in strictly ascending lexicographic order of their keys.
C27_ListingSortedByKey ==
    listed # <<>>
    => LET out == listed[1].out
       IN  /\ Len(out) = Cardinality(DOMAIN DeviceModels)
           /\ {KeyOf(out[i]) : i \in 1..Len(out)} = DOMAIN DeviceModels
           /\ \A i, j \in 1..Len(out) :
                 i < j => StringLess(KeyOf(out[i]), KeyOf(out[j]))
           /\ listed[1].fn = "GetAllDeviceModelNames"
                 => \A i \in 1..Len(out) : out[i] \in DOMAIN DeviceModels

\* a listing with descriptions of a registry of all six profiles, where the
\* order of the keys ("nrf5340" before "stm32wb55rg") is not the order of the
\* names ("STM32WB55RG" before "nRF5340") and one key starts like another
C27_Witness ==
    /\ listed # <<>>
    /\ listed[1].fn = "GetAllDeviceModelsBrief"
    /\ DOMAIN DeviceModels = DOMAIN ListedModels
    /\ Len(listed[1].out) = 6
    /\ KeyOf(listed[1].out[2]) = Key_nrf52840
    /\ KeyOf(listed[1].out[3]) = Key_nrf5340
    /\ KeyOf(listed[1].out[4]) = Key_stm32wb55rg
    /\ StringLess(DeviceModels[Key_stm32wb55rg].Name, DeviceModels[Key_nrf5340].Name)

-----------------------------------------------------------------------------
(* C28 *)

\* C28: after a StoreNetworkEnergy(t) that returned, every registered node has
\* Timestamp t and the state and profile it had before; the time from its former
\* Timestamp to t is booked to the bucket of its state; and the record stored
\* for it is made of the times so brought up to t. The node holds its power
\* level through a pointer only, which the call does not write through.
C28_CaptureAccumulatesAll ==
    [][\A t \in Timestamps :
          Capture(t)
          => \A id \in DOMAIN nodes :
                LET before == nodes[id]
                    after == nodes'[id]
                    dm == DeviceModels'[after.Model]
                    e == RecordOf(Last(energyHistoryByNodes'), id)
                IN  /\ after.Timestamp = t
                    /\ after.State = before.State
                    /\ after.Model = before.Model
                    /\ \E p \in TxPowers, b \in BOOLEAN :
                          CreditedTo(BucketBooked(before.State, b), p, before, after,
                                     t - before.Timestamp)
                    /\ e.Disabled = dm.DisabledConsumption * after.SpentDisabled
                    /\ e.Sleep = dm.SleepConsumption * after.SpentSleep
                    /\ e.Rx = dm.RxConsumption * after.SpentRx
                    /\ e.Tx = SumOver([l \in DOMAIN after.SpentTx |->
                                         dm.TxPowerConsumption[l] * after.SpentTx[l]],
                                      DOMAIN after.SpentTx)]_vars

\* one capture at time 2 of two nodes registered at time 0, one receiving since
\* time 1 and one disabled throughout: both are at time 2, and the records hold
\* the energy of the time up to 2
C28_Witness ==
    /\ Len(energyHistoryByNodes) = 1
    /\ Last(networkHistory).Timestamp = 2
    /\ \E a, b \in DOMAIN nodes :
          /\ a # b
          /\ registeredAt[a] = 0 /\ registeredAt[b] = 0
          /\ nodes[a].Timestamp = 2 /\ nodes[b].Timestamp = 2
          /\ nodes[a].State = "RadioRx" /\ nodes[a].SpentRx = 1
          /\ nodes[b].State = "RadioDisabled" /\ nodes[b].SpentDisabled = 2
          /\ RecordOf(energyHistoryByNodes[1], a).Rx > 0
          /\ RecordOf(energyHistoryByNodes[1], b).Disabled > 0

-----------------------------------------------------------------------------
(* C29 *)

\* C29: the batch a StoreNetworkEnergy appends holds as many records as nodes
\* are registered at the time of the call, the NodeId of every record is the id
\* of a registered node, every registered node has a record, and no two records
\* have the same NodeId; this also holds for a node that has used no energy yet.
C29_OneRecordPerNode ==
    [][\A t \in Timestamps :
          Capture(t)
          => LET batch == Last(energyHistoryByNodes')
             IN  /\ Len(energyHistoryByNodes') = Len(energyHistoryByNodes) + 1
                 /\ Len(batch) = Cardinality(DOMAIN nodes)
                 /\ \A k \in 1..Len(batch) : batch[k].NodeId \in DOMAIN nodes
                 /\ \A id \in DOMAIN nodes : \E k \in 1..Len(batch) : batch[k].NodeId = id
                 /\ \A j, k \in 1..Len(batch) :
                       j # k => batch[j].NodeId # batch[k].NodeId]_vars

\* a capture of one node and then, after a second node was registered at the
\* same time, a capture of two: one record, then two, the second node's with no
\* energy in it
C29_Witness ==
    /\ Len(energyHistoryByNodes) = 2
    /\ Len(energyHistoryByNodes[1]) = 1
    /\ Len(energyHistoryByNodes[2]) = 2
    /\ {energyHistoryByNodes[2][k].NodeId : k \in 1..2} = DOMAIN nodes
    /\ \E k \in 1..2 :
          LET e == energyHistoryByNodes[2][k]
          IN  e.Disabled + e.Sleep + e.Tx + e.Rx = 0

-----------------------------------------------------------------------------
(* C30 *)

\* s is t or the front part of t
IsPrefix(s, t) == Len(s) <= Len(t) /\ SubSeq(t, 1, Len(s)) = s

\* C30: every step either leaves each entry of both histories where and as it
\* was, with at most new entries after them, or empties both histories, and the
\* latter only in a DeleteNode after which no node is registered. AddNode,
\* SetRadioState, StoreNetworkEnergy and a DeleteNode that leaves a node
\* registered keep the entries.
C30_AppendOnlyBetweenResets ==
    [][/\ \/ /\ IsPrefix(networkHistory, networkHistory')
             /\ IsPrefix(energyHistoryByNodes, energyHistoryByNodes')
          \/ /\ networkHistory' = <<>>
             /\ energyHistoryByNodes' = <<>>
             /\ DOMAIN nodes' = {}
             /\ \E id \in NodeIds : DeleteNode(id)
       /\ \A id \in NodeIds :
             (DeleteNode(id) /\ DOMAIN nodes' # {})
             => UNCHANGED <<networkHistory, energyHistoryByNodes>>]_vars

\* a batch of two records is in the history and one of the two nodes has been
\* deleted since: the record of the deleted node is still there
C30_Witness ==
    /\ Len(networkHistory) = 1
    /\ Len(energyHistoryByNodes) = 1
    /\ Len(energyHistoryByNodes[1]) = 2
    /\ Cardinality(DOMAIN nodes) = 1
    /\ \E k \in 1..2 : energyHistoryByNodes[1][k].NodeId \notin DOMAIN nodes

-----------------------------------------------------------------------------
(* C31 *)

\* C31: when a level that is no key of a non-empty mapping and is not above its
\* greatest key is looked up, the scan over the sorted keys finds a key
\* strictly greater than the level; the draw of that key is returned and cached
\* for the level, so the return of undefinedValue after the scan, which caches
\* nothing, is not reached.
C31_ScanAlwaysFinds ==
    [][\A txPower \in ResolveLevels :
          (/\ TxMap # EmptyMap
           /\ txPower \notin DOMAIN TxMap
           /\ txPower <= Max(DOMAIN TxMap)
           /\ Resolve(txPower))
          => LET hit == FirstHigher(SortInts(DOMAIN TxMap), txPower)
             IN  /\ hit # <<>>
                 /\ hit[1] \in DOMAIN TxMap
                 /\ hit[1] > txPower
                 /\ resolved'[1].value = TxMap[hit[1]]
                 /\ txPower \in DOMAIN TxMap'
                 /\ TxMap'[txPower] = TxMap[hit[1]]]_vars

\* level 7 has just been looked up in a mapping whose only key is 10: the scan
\* found 10, and 7 is cached with the draw of 10, which is not undefinedValue
C31_Witness ==
    /\ DOMAIN TxMap = {7, 10}
    /\ resolved = <<[txPower |-> 7, value |-> TxMap[10]]>>
    /\ TxMap[7] = TxMap[10]
    /\ TxMap[7] # undefinedValue

-----------------------------------------------------------------------------
(* C32 *)

\* after holds the time accumulators of before with d more, in uint64
\* arithmetic, in the one bucket named
CreditedWrapping(bucket, level, before, after, d) ==
    /\ after.SpentDisabled =
          (before.SpentDisabled + (IF bucket = "disabled" THEN d ELSE 0)) % UintMod
    /\ after.SpentSleep = (before.SpentSleep + (IF bucket = "sleep" THEN d ELSE 0)) % UintMod
    /\ after.SpentRx = (before.SpentRx + (IF bucket = "receive" THEN d ELSE 0)) % UintMod
    /\ \A l \in TxPowers :
          SpentTxAt(after, l) =
              (SpentTxAt(before, l) + (IF bucket = "transmit" /\ l = level THEN d ELSE 0))
                  % UintMod
    /\ DOMAIN after.SpentTx \subseteq TxPowers

\* C32: a ComputeRadioState(t) with t before the node's Timestamp, run by
\* SetRadioState or by StoreNetworkEnergy, is not rejected: the unsigned
\* difference (t - Timestamp) modulo the word size, which is the word size less
\* the regression, is added with wrap-around to the bucket the node's state is
\* booked to (to none in Invalid), and Timestamp is set back to t.
C32_RegressionWraps ==
    [][\A id \in DOMAIN nodes, t \in Timestamps, p \in TxPowers, b \in BOOLEAN :
          (/\ t < nodes[id].Timestamp
           /\ Accumulate(id, t, p, b))
          => /\ CreditedWrapping(BucketBooked(nodes[id].State, b), p, nodes[id], nodes'[id],
                                 UintMod - (nodes[id].Timestamp - t))
             /\ nodes'[id].Timestamp = t]_vars

\* a node registered at time 1 whose state was set at time 0: its disabled-time
\* has jumped to the word size less one and its Timestamp is back at 0
C32_Witness ==
    \E id \in DOMAIN nodes :
        /\ registeredAt[id] = 1
        /\ nodes[id].Timestamp = 0
        /\ nodes[id].SpentDisabled = UintMod - 1
        /\ nodes[id].State # "RadioDisabled"

-----------------------------------------------------------------------------
(* C33 *)

\* C33: a ComputeRadioState(t) on a node in Transmit adds the whole interval
\* since the node's Timestamp to SpentTx at the level it reads through txPower
\* during that call, and leaves the time at every other level and every other
\* accumulator as it was; the level txPower pointed to when the node entered
\* Transmit plays no part.
C33_TransmitCreditedAtClosingLevel ==
    [][\A id \in DOMAIN nodes, t \in Timestamps, p \in TxPowers, b \in BOOLEAN :
          (/\ nodes[id].State = "RadioTx"
           /\ Accumulate(id, t, p, b))
          => /\ CreditedTo("transmit", p, nodes[id], nodes'[id], t - nodes[id].Timestamp)
             /\ \A l \in TxPowers \ {p} : SpentTxAt(nodes'[id], l) = SpentTxAt(nodes[id], l)]_vars

\* one stay in Transmit from time 0 to time 2, closed in two parts: the first
\* unit went to level 0 and the second to level 5, each in full
C33_Witness ==
    \E id \in DOMAIN nodes :
        /\ registeredAt[id] = 0
        /\ nodes[id].Timestamp = 2
        /\ nodes[id].SpentDisabled = 0
        /\ SpentTxAt(nodes[id], 0) = 1
        /\ SpentTxAt(nodes[id], 5) = 1
        /\ TotalSpent(nodes[id]) = 2

-----------------------------------------------------------------------------
(* C34 *)

\* C34: in no reachable state does SetDeviceModel(id, model) return true, for
\* any id and model: for a registered id it returns false; for an id that is not
\* registered it returns false when model is no key of the registry and panics
\* on the nil entry of the id when it is. No call of it adds a node, changes the
\* profile of a node or changes the registry.
C34_SetDeviceModelNeverSucceeds ==
    /\ [](\A id \in NodeIds, model \in ModelArgs :
            SetDeviceModelReturns(id, model) =
                IF id \in DOMAIN nodes THEN "false"
                ELSE IF model \in DOMAIN InitDeviceModels THEN "panic"
                ELSE "false")
    /\ [][\A id \in NodeIds, model \in ModelArgs :
            SetDeviceModel(id, model)
            => /\ nodes' = nodes
               /\ DeviceModels' = DeviceModels
               /\ panicked' = (id \notin DOMAIN nodes /\ model \in DOMAIN InitDeviceModels)]_vars

\* one node is registered and one id is not: the three outcomes are all about
\* to happen, false for the registered id, false for the unknown model, and a
\* panic for the id that is not registered with a known model
C34_Witness ==
    \E id, other \in NodeIds :
        /\ id \in DOMAIN nodes
        /\ other \notin DOMAIN nodes
        /\ nodes[id].Model = "stm32wb55rg"
        /\ SetDeviceModelReturns(id, "xxx") = "false"
        /\ SetDeviceModelReturns(other, "nomodel") = "false"
        /\ SetDeviceModelReturns(other, "xxx") = "panic"
        /\ ENABLED (SetDeviceModel(id, "xxx") /\ nodes' = nodes /\ ~panicked')
        /\ ENABLED (SetDeviceModel(other, "xxx") /\ nodes' = nodes /\ panicked')

-----------------------------------------------------------------------------
(* C35 *)

\* C35: AddNode with a model name that is no key of the registry registers the
\* node all the same, without a profile. While such a node is registered, every
\* StoreNetworkEnergy(t) panics: a node without profile has been brought to
\* Timestamp t by then, every node is either brought to t or left as it was,
\* and neither history has received an entry.
C35_UnknownModelFaultsCapture ==
    [][/\ \A id \in NodeIds \ DOMAIN nodes, t \in Timestamps, model \in ModelArgs :
             (model \notin DOMAIN DeviceModels /\ AddNode(id, t, model))
             => /\ id \in DOMAIN nodes'
                /\ nodes'[id].Model = NilModel
                /\ ~panicked'
       /\ \A t \in Timestamps, idOrder \in Orders(DOMAIN nodes),
             read \in StoreReads(DOMAIN nodes) :
             (/\ \E id \in DOMAIN nodes : nodes[id].Model = NilModel
              /\ StoreNetworkEnergy(t, idOrder, read))
             => /\ panicked'
                /\ UNCHANGED <<networkHistory, energyHistoryByNodes>>
                /\ \E id \in DOMAIN nodes :
                      nodes[id].Model = NilModel /\ nodes'[id].Timestamp = t
                /\ \A id \in DOMAIN nodes :
                      nodes'[id].Timestamp = t \/ nodes'[id] = nodes[id]]_vars

\* a capture has panicked on a node without profile after bringing it from its
\* registration at time 0 to time 1; the other node, with a profile, was not
\* reached, and the histories are empty
C35_Witness ==
    /\ panicked
    /\ networkHistory = <<>>
    /\ energyHistoryByNodes = <<>>
    /\ \E id, other \in DOMAIN nodes :
          /\ nodes[id].Model = NilModel
          /\ registeredAt[id] = 0
          /\ nodes[id].Timestamp = 1
          /\ nodes[id].SpentDisabled = 1
          /\ nodes[other].Model # NilModel
          /\ nodes[other].Timestamp = 0

-----------------------------------------------------------------------------
(* C36 *)

\* C36: after node 1 has booked transmit-time at level 5 and a capture has
\* cached that level in its profile, every AddNode of an id that is not
\* registered, the id of a node deleted before included, creates a tracker in
\* state Disabled with all accumulators zero and Timestamp equal to the
\* timestamp of this registration; neither DeleteNode nor AddNode changes the
\* registry, and the level cached under the first registration stays cached.
C36_ReRegistrationIsFresh ==
    /\ [](5 \in DOMAIN DeviceModels["xxx"].TxPowerConsumption)
    /\ [][/\ \A id \in NodeIds \ DOMAIN nodes, t \in Timestamps, model \in ModelArgs :
                AddNode(id, t, model)
                => /\ nodes'[id].State = "RadioDisabled"
                   /\ Buckets(nodes'[id]) = <<0, 0, 0, EmptyMap>>
                   /\ nodes'[id].Timestamp = t
                   /\ registeredAt'[id] = t
                   /\ DeviceModels' = DeviceModels
          /\ \A id \in NodeIds :
                DeleteNode(id) => (id \notin DOMAIN nodes' /\ DeviceModels' = DeviceModels)]_vars

\* node 1 has been deleted and registered again at time 2: it is Disabled with
\* nothing of its transmit-time left, while level 5 is still cached in "xxx"
C36_Witness ==
    /\ 1 \in DOMAIN nodes
    /\ registeredAt[1] = 2
    /\ nodes[1] = [Model |-> "xxx", State |-> "RadioDisabled", SpentDisabled |-> 0,
                   SpentSleep |-> 0, SpentRx |-> 0, SpentTx |-> EmptyMap,
                   Timestamp |-> 2]
    /\ 5 \in DOMAIN DeviceModels["xxx"].TxPowerConsumption
    /\ 5 \notin DOMAIN InitDeviceModels["xxx"].TxPowerConsumption
    /\ networkHistory = <<>>

\* the starting state of SpecReRegister as Spec reaches it
ReRegisterStartReached ==
    /\ nodes = ReRegisterStart.nodes
    /\ DeviceModels = ReRegisterStart.models
    /\ energyHistoryByNodes = <<ReRegisterStart.snap>>
    /\ Len(networkHistory) = 1
    /\ networkHistory[1].Timestamp = 1
    /\ networkHistory[1].EnergyConsTx = ReRegisterStart.net.EnergyConsTx
    /\ registeredAt = [i \in {1} |-> 0]
    /\ ~panicked

-----------------------------------------------------------------------------
(* C37 *)

\* C37: a DeleteNode(id) after which a node is still registered leaves both
\* histories as they are, the records of id in earlier batches included, and
\* leaves the tracker of every other node as it is; a StoreNetworkEnergy that
\* returns with nodes registered stores as each network total the sum of the
\* records of the nodes registered at that time divided by their number.
C37_NonLastDeleteKeepsHistory ==
    [][/\ \A id \in NodeIds :
             (DeleteNode(id) /\ DOMAIN nodes \ {id} # {})
             => /\ networkHistory' = networkHistory
                /\ energyHistoryByNodes' = energyHistoryByNodes
                /\ DOMAIN nodes' = DOMAIN nodes \ {id}
                /\ \A other \in DOMAIN nodes' : nodes'[other] = nodes[other]
       /\ \A t \in Timestamps :
             (DOMAIN nodes # {} /\ Capture(t))
             => LET batch == Last(energyHistoryByNodes')
                    snapshot == Last(networkHistory')
                    n == Cardinality(DOMAIN nodes)
                    Total(category) ==
                        SumOver([id \in DOMAIN nodes |-> RecordOf(batch, id)[category]],
                                DOMAIN nodes)
                IN  /\ snapshot.EnergyConsDisabled = Rat(Total("Disabled"), n)
                    /\ snapshot.EnergyConsSleep = Rat(Total("Sleep"), n)
                    /\ snapshot.EnergyConsTx = Rat(Total("Tx"), n)
                    /\ snapshot.EnergyConsRx = Rat(Total("Rx"), n)]_vars

\* node 1, whose record is in the first batch, was deleted while node 2 was
\* registered, and a capture followed: the first batch still holds the record
\* of node 1, and the second snapshot is the energy of node 2 alone
C37_Witness ==
    /\ DOMAIN nodes = {2}
    /\ Len(energyHistoryByNodes) = 2
    /\ Len(energyHistoryByNodes[1]) = 1
    /\ energyHistoryByNodes[1][1].NodeId = 1
    /\ energyHistoryByNodes[1][1].Tx > 0
    /\ Len(energyHistoryByNodes[2]) = 1
    /\ energyHistoryByNodes[2][1].NodeId = 2
    /\ energyHistoryByNodes[2][1].Disabled > 0
    /\ networkHistory[2].EnergyConsDisabled = Rat(energyHistoryByNodes[2][1].Disabled, 1)
    /\ networkHistory[2].EnergyConsTx = Rat(0, 1)

====
